---------------------------- MODULE Spec2Model ----------------------------
(***************************************************************************)
(* A model of the batching, dispatch and retry core of the Lingo.dev       *)
(* Python SDK: LingoDotDevEngine._extract_payload_chunks and               *)
(* _localize_raw (engine.py), RetryHandler / AsyncRetryHandler (retry.py)  *)
(* and the error classes they classify (exceptions.py).                    *)
(*                                                                         *)
(* A Python dict is modelled as a sequence of <<key, value>> pairs with    *)
(* pairwise distinct keys: its iteration order is the sequence order.      *)
(* A value is a record [kind, body]: a string is a sequence of characters, *)
(* a list or a dict the sequence of its (string) elements.                 *)
(***************************************************************************)
EXTENDS Integers, Sequences, FiniteSets, TLC

\* Bounds of the model.
MaxKeys == 3
MaxCap == 3
MaxLimit == 2
MaxRetries == 3
MaxAttempt == 4
JitterGrain == 2
MaxBackoffAttempt == 8
MaxChunks == 101
MaxSendChunks == 3
MaxPosts == 2
MaxRuns == 2
MaxCloses == 2

-----------------------------------------------------------------------------
(* Values and dicts *)

Str(s) == [kind |-> "str", body |-> <<s>>]
List(ss) == [kind |-> "list", body |-> ss]
Dict(ss) == [kind |-> "dict", body |-> ss]
Other == [kind |-> "other", body |-> <<>>]

\* The values a payload entry may hold: 0, 1, 2, 3 and 2 words.
Values ==
  { Other,
    Str(<<"a">>),
    Str(<<" ", "a", " ", "b">>),
    List(<<  <<"a", " ", "b">>, <<"c", " ">>  >>),
    Dict(<<  <<"a">>, <<>>, <<"b", "c">>, <<"d">>  >>) }

KeysOf(d) == [i \in 1..Len(d) |-> d[i][1]]

HasKey(d, k) == \E i \in 1..Len(d) : d[i][1] = k

\* d[k] = v
DictSet(d, k, v) ==
  IF HasKey(d, k)
    THEN [i \in 1..Len(d) |-> IF d[i][1] = k THEN <<k, v>> ELSE d[i]]
    ELSE Append(d, <<k, v>>)

RECURSIVE DictUpdate(_, _)
\* d.update(e)
DictUpdate(d, e) ==
  IF e = <<>> THEN d
  ELSE DictUpdate(DictSet(d, e[1][1], e[1][2]), Tail(e))

RECURSIVE SumSeq(_)
SumSeq(s) == IF s = <<>> THEN 0 ELSE s[1] + SumSeq(Tail(s))

\* len([word for word in s.strip().split() if word]): the maximal runs of
\* non-whitespace characters.
CountWordsStr(s) ==
  Cardinality({ i \in 1..Len(s) : s[i] # " " /\ (i = 1 \/ s[i-1] = " ") })

CountWordsInRecord(v) ==
  CASE v.kind = "str" -> CountWordsStr(v.body[1])
    [] v.kind \in {"list", "dict"} ->
         SumSeq([i \in 1..Len(v.body) |-> CountWordsStr(v.body[i])])
    [] OTHER -> 0

\* _count_words_in_record applied to a chunk (a dict): the sum over its values.
CountWordsInChunk(chunk) ==
  SumSeq([i \in 1..Len(chunk) |-> CountWordsInRecord(chunk[i][2])])

-----------------------------------------------------------------------------
(* The partitioner *)

\* Mutant: the chunk still open after the last entry is never appended.
IsLastKey_Never(payload, key) == FALSE

\* key == list(payload.keys())[-1]
IsLastKey(payload, key) == key = payload[Len(payload)][1]

\* Mutant: the item count is compared with > instead of >=.
ClosesChunk_CountGT(payload, key, current_chunk_size, current_chunk_item_count, batch_size, ideal_batch_item_size) ==
  \/ current_chunk_size > ideal_batch_item_size
  \/ current_chunk_item_count > batch_size
  \/ IsLastKey(payload, key)

\* Mutant: the word count is never compared with the size cap.
ClosesChunk_NoSize(payload, key, current_chunk_size, current_chunk_item_count, batch_size, ideal_batch_item_size) ==
  \/ current_chunk_item_count >= batch_size
  \/ IsLastKey(payload, key)

\* Mutant: the word count is compared with >= instead of >.
ClosesChunk_SizeGE(payload, key, current_chunk_size, current_chunk_item_count, batch_size, ideal_batch_item_size) ==
  \/ current_chunk_size >= ideal_batch_item_size
  \/ current_chunk_item_count >= batch_size
  \/ IsLastKey(payload, key)

\* The condition that closes the current chunk after an entry was added.
ClosesChunk(payload, key, current_chunk_size, current_chunk_item_count, batch_size, ideal_batch_item_size) ==
  \/ current_chunk_size > ideal_batch_item_size
  \/ current_chunk_item_count >= batch_size
  \/ IsLastKey(payload, key)

RECURSIVE ExtractLoop(_, _, _, _, _, _, _)
\* The for loop of _extract_payload_chunks from entry i on. (Len(result) >= 0
\* holds of every list: it has the list built so far evaluated at each
\* iteration, as the loop does, and not as one nested expression at the end.)
ExtractLoop(payload, i, result, current_chunk, current_chunk_item_count, batch_size, ideal_batch_item_size) ==
  IF Len(result) >= 0 /\ i > Len(payload) THEN result
  ELSE
    LET key == payload[i][1]
        chunk == DictSet(current_chunk, key, payload[i][2])
        count == current_chunk_item_count + 1
        size == CountWordsInChunk(chunk)
    IN IF ClosesChunk(payload, key, size, count, batch_size,
                      ideal_batch_item_size)
         THEN ExtractLoop(payload, i + 1, Append(result, chunk), <<>>, 0,
                          batch_size, ideal_batch_item_size)
         ELSE ExtractLoop(payload, i + 1, result, chunk, count,
                          batch_size, ideal_batch_item_size)

ExtractPayloadChunks(payload, batch_size, ideal_batch_item_size) ==
  ExtractLoop(payload, 1, <<>>, <<>>, 0, batch_size, ideal_batch_item_size)

-----------------------------------------------------------------------------
(* One chunk send, and the merge *)

Translated(v) == [kind |-> "translated", body |-> v.body]

\* The mapping the service returns for a chunk: the chunk's keys in the
\* chunk's order, each with its translation.
TranslatedChunk(chunk) ==
  [i \in 1..Len(chunk) |-> <<chunk[i][1], Translated(chunk[i][2])>>]

\* What the POST of a chunk can come back with.
Responses ==
  { "data", "no_data", "stream_error", "status_5xx", "status_400",
    "status_other", "request_error" }

\* Mutant: every chunk after the first is sent under an id of its own.
RequestWorkflowId_PerChunk(workflow_id, i) == IF i > 1 THEN "other" ELSE workflow_id

\* _localize_chunk: request_data["params"]["workflowId"] of the request for
\* the i-th chunk, given the workflow_id argument _localize_raw passes.
RequestWorkflowId(workflow_id, i) == workflow_id

\* _localize_chunk: the mapping it returns or the exception it raises.
LocalizeChunk(chunk, response) ==
  CASE response = "data" -> [raised |-> "", value |-> TranslatedChunk(chunk)]
    [] response = "no_data" -> [raised |-> "", value |-> <<>>]
    [] response = "status_400" -> [raised |-> "ValueError", value |-> <<>>]
    [] OTHER -> [raised |-> "RuntimeError", value |-> <<>>]

RECURSIVE MergeChunks(_, _)
\* for chunk in processed_payload_chunks: result.update(chunk)
\* (Len(result) >= 0 has the dict evaluated at each iteration, as above.)
MergeChunks(result, chunks) ==
  IF Len(result) >= 0 /\ chunks = <<>> THEN result
  ELSE MergeChunks(DictUpdate(result, chunks[1]), Tail(chunks))

\* Mutant: the results are collected in the order the sends completed.
GatherResults_AsCompleted(values, order) ==
  [i \in 1..Len(order) |-> values[order[i]]]

\* asyncio.gather returns the tasks' results in the order of the tasks.
GatherResults(values, order) == [i \in 1..Len(values) |-> values[i]]

\* Mutant: gather(..., return_exceptions=True): no task's exception is raised.
GatherPropagates_Never(raised) == FALSE

\* asyncio.gather (return_exceptions=False) raises the exception of the first
\* task that fails.
GatherPropagates(raised) == raised # ""

\* Python's round() of num / den: to the nearest integer, a tie to the even one.
RoundHalfEven(num, den) ==
  LET q == num \div den
      r == num % den
  IN IF 2 * r < den THEN q
     ELSE IF 2 * r > den THEN q + 1
     ELSE IF q % 2 = 0 THEN q ELSE q + 1

\* Mutant: the percentage is taken of the number of chunks, not of the index.
PercentageCompleted_OfTotal(k, n) == RoundHalfEven(100 * n, n)

\* round(((i + 1) / len(chunked_payload)) * 100) for the k-th chunk, k = i + 1,
\* in double arithmetic. For fewer than 200 chunks the product differs from
\* the exact 100 * k / n across a half only for k / n = 23 / 40: the double
\* 0.575 * 100 is 57.49999999999999 and rounds to 57, where 57.5 rounds to 58.
PercentageCompleted(k, n) ==
  IF 40 * k = 23 * n THEN 57 ELSE RoundHalfEven(100 * k, n)

-----------------------------------------------------------------------------
(* Exceptions and their classification *)

\* An exception: its class, the HTTP status it carries (0: none), and its
\* `response` attribute: absent, None ("none"), a requests Response ("real")
\* or a test double ("mock").
Exc(cls, status, resp) == [cls |-> cls, status |-> status, resp |-> resp]

APIError(status) == Exc("LingoDevAPIError", status, "absent")
NetworkError == Exc("LingoDevNetworkError", 0, "absent")
TimeoutError == Exc("LingoDevTimeoutError", 0, "absent")
ValidationError == Exc("LingoDevValidationError", 0, "absent")

\* isinstance(e, LingoDevError)
IsLingoDevError(e) ==
  e.cls \in { "LingoDevAPIError", "LingoDevNetworkError", "LingoDevTimeoutError",
              "LingoDevValidationError" }

\* isinstance(e, LingoDevAPIError)
IsAPIError(e) == e.cls = "LingoDevAPIError"

\* isinstance(e, LingoDevNetworkError): LingoDevTimeoutError is a subclass.
IsNetworkError(e) == e.cls \in {"LingoDevNetworkError", "LingoDevTimeoutError"}

\* isinstance(e, requests.exceptions.RequestException)
IsRequestsException(e) ==
  e.cls \in { "requests.ConnectionError", "requests.Timeout",
              "requests.HTTPError", "requests.RequestException" }

\* isinstance(e, aiohttp.ClientError)
IsAiohttpClientError(e) ==
  e.cls \in { "aiohttp.ClientConnectionError", "aiohttp.ClientResponseError",
              "aiohttp.ClientError" }

\* hasattr(e, 'status') and hasattr(e, 'message')
HasStatusAndMessage(e) == e.cls = "aiohttp.ClientResponseError"

\* hasattr(e, 'response')
HasResponse(e) == e.resp # "absent"

\* bool(e.response): None is false, a requests Response is true when its
\* status is below 400, a test double is true.
ResponseTruthy(e) ==
  CASE e.resp = "mock" -> TRUE
    [] e.resp = "real" -> e.status < 400
    [] OTHER -> FALSE

\* Mutant: every API error is retryable.
APIErrorIsRetryable_Always(e, config) == TRUE

\* LingoDevAPIError.is_retryable (config is the handler's configuration,
\* which the property does not see).
APIErrorIsRetryable(e, config) == e.status \in {429, 500, 502, 503, 504}

\* LingoDevNetworkError.is_retryable
NetworkErrorIsRetryable(e) == TRUE

\* Mutant: the cap is compared with > instead of >=.
ReachedMaxAttempts_GT(attempt, max_retries) == attempt > max_retries

\* if attempt >= self.config.max_retries
ReachedMaxAttempts(attempt, max_retries) == attempt >= max_retries

\* The checks should_retry makes on an exception of the requests library.
ShouldRetryRequests(config, e) ==
  IF e.cls \in {"requests.ConnectionError", "requests.Timeout"} THEN TRUE
  ELSE IF e.cls = "requests.HTTPError" /\ HasResponse(e) /\ ResponseTruthy(e)
    THEN e.status \in config.retry_statuses
  ELSE FALSE

\* The checks AsyncRetryHandler.should_retry makes on an aiohttp exception.
ShouldRetryAiohttp(config, e) ==
  IF e.cls = "aiohttp.ClientConnectionError" THEN TRUE
  ELSE IF e.cls = "aiohttp.ClientResponseError"
    THEN e.status \in config.retry_statuses
  ELSE FALSE

\* Mutant: the asynchronous handler does not retry a timeout.
ShouldRetry_AsyncNoTimeout(handler, config, e, attempt) ==
  IF ReachedMaxAttempts(attempt, config.max_retries) THEN FALSE
  ELSE IF IsAPIError(e) THEN APIErrorIsRetryable(e, config)
  ELSE IF IsNetworkError(e) THEN handler = "sync" \/ e.cls # "LingoDevTimeoutError"
  ELSE FALSE

\* RetryHandler.should_retry ("sync") and AsyncRetryHandler.should_retry
\* ("async").
ShouldRetry(handler, config, e, attempt) ==
  IF ReachedMaxAttempts(attempt, config.max_retries) THEN FALSE
  ELSE IF IsAPIError(e) THEN APIErrorIsRetryable(e, config)
  ELSE IF IsNetworkError(e) THEN NetworkErrorIsRetryable(e)
  ELSE IF handler = "async" /\ IsAiohttpClientError(e)
    THEN ShouldRetryAiohttp(config, e)
  ELSE IF IsRequestsException(e) THEN ShouldRetryRequests(config, e)
  ELSE IF e.cls \in {"ConnectionError", "TimeoutError"} THEN TRUE
  ELSE FALSE

\* create_api_error_from_response(response): reading status_code of a
\* response that is None raises AttributeError.
CreateApiErrorFromResponse(e) ==
  IF e.resp = "none" THEN Exc("AttributeError", 0, "absent")
  ELSE APIError(e.status)

\* create_network_error_from_exception
CreateNetworkErrorFromException(e) == NetworkError

\* The conversion execute_with_retry makes of what the operation raised.
ConvertException(handler, e) ==
  IF IsLingoDevError(e) THEN e
  ELSE IF handler = "async" /\ HasStatusAndMessage(e) THEN APIError(e.status)
  ELSE IF HasResponse(e) THEN CreateApiErrorFromResponse(e)
  ELSE CreateNetworkErrorFromException(e)

RECURSIVE Pow2(_)
Pow2(n) == IF n = 0 THEN 1 ELSE 2 * Pow2(n - 1)

Min(a, b) == IF a <= b THEN a ELSE b
Max(a, b) == IF a >= b THEN a ELSE b

\* Mutant: the exponential value is not capped.
CalculateBackoff_NoCap(config, attempt, draw) ==
  LET backoff == config.backoff_factor * Pow2(attempt - 1)
  IN IF config.jitter
       THEN backoff + (backoff * 25 * draw) \div (100 * JitterGrain)
       ELSE backoff

\* Mutant: the jitter is up to the whole backoff instead of a quarter of it.
CalculateBackoff_FullJitter(config, attempt, draw) ==
  LET backoff == Min(config.backoff_factor * Pow2(attempt - 1), config.max_backoff)
  IN IF config.jitter
       THEN backoff + (backoff * draw) \div JitterGrain
       ELSE backoff

\* Mutant: the exponent is the attempt number instead of the attempt number
\* less one.
CalculateBackoff_ZeroBased(config, attempt, draw) ==
  LET backoff == Min(config.backoff_factor * Pow2(attempt), config.max_backoff)
  IN IF config.jitter
       THEN backoff + (backoff * 25 * draw) \div (100 * JitterGrain)
       ELSE backoff

\* calculate_backoff, in milliseconds; draw / JitterGrain is the value of
\* random.random(), and the jitter is rounded down to a millisecond.
CalculateBackoff(config, attempt, draw) ==
  LET backoff == Min(config.backoff_factor * Pow2(attempt - 1), config.max_backoff)
  IN IF config.jitter
       THEN backoff + (backoff * 25 * draw) \div (100 * JitterGrain)
       ELSE backoff

RECURSIVE Replay(_, _, _, _, _, _)
\* execute_with_retry of the handler h with configuration cfg and no jitter,
\* from attempt k on, after the waits made so far, for an operation that
\* raises failures[i] at its i-th invocation and then returns (succeeds) or
\* is not invoked again: how the execution ends, with "pending" when it
\* would go on to an invocation the operation has no outcome for.
Replay(h, cfg, failures, succeeds, k, waits) ==
  IF k > Len(failures)
    THEN [kind |-> IF succeeds THEN "returned" ELSE "pending", attempt |-> k,
          waits |-> waits, last_error |-> Exc("", 0, "absent")]
  ELSE LET e == ConvertException(h, failures[k])
       IN IF e.cls = "AttributeError"
            THEN [kind |-> "raised_other", attempt |-> k, waits |-> waits,
                  last_error |-> e]
          ELSE IF ~ShouldRetry(h, cfg, e, k) \/ k >= Max(1, cfg.max_retries)
            THEN [kind |-> "exhausted", attempt |-> k, waits |-> waits,
                  last_error |-> e]
          ELSE Replay(h, cfg, failures, succeeds, k + 1,
                      Append(waits, CalculateBackoff(cfg, k, 0)))

\* Mutant: an exception of the retry callback leaves execute_with_retry.
CallbackPropagates_Raises(retry_callback) == retry_callback = "raises"

\* try: retry_callback(attempt, e, backoff_time) except Exception: whether an
\* exception of the callback leaves execute_with_retry.
CallbackPropagates(retry_callback) == FALSE

\* Mutant: the attempts allowed are reported, not the attempts made.
TotalAttempts_Max(retry_context) == retry_context.max_attempts

\* LingoDevRetryExhaustedError.total_attempts
TotalAttempts(retry_context) == retry_context.attempt

\* Mutant: the client never goes through its retry handler.
UsesRetryHandler_Never(retry_handler) == FALSE

\* AsyncHTTPClient.post: if self.retry_handler
UsesRetryHandler(retry_handler) == retry_handler # "none"

\* What the transport can do with a request of AsyncHTTPClient.
ClientResponses ==
  { "ok_json", "invalid_json", "status_400", "status_404", "status_429",
    "status_500", "timeout", "connection_error", "client_error", "other_exception" }

\* AsyncHTTPClient.post, _make_request: the typed error it raises when the
\* transport does not answer with a JSON body and a status below 400.
MakeRequestRaises(resp) ==
  CASE resp = "status_400" -> APIError(400)
    [] resp = "status_404" -> APIError(404)
    [] resp = "status_429" -> APIError(429)
    [] resp = "status_500" -> APIError(500)
    [] resp = "invalid_json" -> APIError(200)
    [] resp = "timeout" -> TimeoutError
    [] OTHER -> NetworkError

-----------------------------------------------------------------------------
(* Inputs *)

Keys == 1..MaxKeys

\* The sequences of pairwise distinct keys.
KeySeqs ==
  UNION { { s \in [1..n -> Keys] : \A i, j \in 1..n : i # j => s[i] # s[j] }
          : n \in 0..MaxKeys }

PayloadsOver(vals) ==
  UNION { { [i \in 1..Len(ks) |-> <<ks[i], vs[i]>>] : vs \in [1..Len(ks) -> vals] }
          : ks \in KeySeqs }

Caps == 1..MaxCap

\* The payload values of the dispatch runs: strings of one word.
DispatchValues == { Str(<<"a">>) }

\* RetryConfiguration.retry_statuses: the default and two custom sets.
RetryStatusSets == { {429, 500, 502, 503, 504}, {500, 502, 503}, {404, 429} }

\* backoff_factor, max_backoff (milliseconds) and jitter: the defaults and
\* the configuration of the tests.
BackoffSettings ==
  { [backoff_factor |-> 500, max_backoff |-> 60000, jitter |-> TRUE],
    [backoff_factor |-> 100, max_backoff |-> 1000, jitter |-> FALSE] }

RetryConfigurations ==
  { [max_retries |-> m, retry_statuses |-> rs, backoff_factor |-> b.backoff_factor,
     max_backoff |-> b.max_backoff, jitter |-> b.jitter] :
      m \in 0..MaxRetries, rs \in RetryStatusSets, b \in BackoffSettings }

\* The HTTP statuses of the modelled failures.
Statuses == {400, 401, 404, 429, 500, 503}

\* The SDK-typed errors.
TypedErrors ==
  { APIError(st) : st \in Statuses } \cup {NetworkError, TimeoutError, ValidationError}

\* The exceptions that are not SDK-typed.
UntypedErrors ==
  { Exc("requests.HTTPError", st, rp) : st \in {404, 500}, rp \in {"real", "mock"} }
  \cup { Exc("aiohttp.ClientResponseError", st, "absent") : st \in {404, 503} }
  \cup { Exc(c, 0, "none") : c \in {"requests.ConnectionError", "requests.Timeout",
                                     "requests.RequestException", "requests.HTTPError"} }
  \cup { Exc(c, 0, "absent") : c \in {"aiohttp.ClientConnectionError", "aiohttp.ClientError",
                                       "ConnectionError", "TimeoutError", "ValueError"} }

\* What the operation passed to execute_with_retry raises in the modelled runs.
OperationFailures ==
  { APIError(500), APIError(400), APIError(401), APIError(404),
    NetworkError, ValidationError,
    Exc("ConnectionError", 0, "absent"), Exc("ValueError", 0, "absent"),
    Exc("requests.HTTPError", 404, "real"), Exc("requests.HTTPError", 429, "real"),
    Exc("requests.ConnectionError", 0, "none"),
    Exc("aiohttp.ClientResponseError", 503, "absent"),
    Exc("aiohttp.ClientResponseError", 404, "absent") }

\* The retry callbacks passed to execute_with_retry: none, one that returns,
\* one that raises.
RetryCallbacks == {"none", "returns", "raises"}

\* The Retry-After hints (milliseconds, 0: none) a failure can carry: a
\* rate-limit response may carry one in its headers.
RetryAfterHints(e) == IF e.status = 429 /\ e.resp = "real" THEN {0, 5000} ELSE {0}

\* The time budget (milliseconds) a caller wants an execution to keep.
Budgets == {1000}

\* The values nanoid's generate() can return: non-empty strings.
WorkflowIds == {"id1", "id2"}

\* The concurrency limits a caller asks for: the smallest and a larger one.
Limits == {1, MaxLimit}

-----------------------------------------------------------------------------
VARIABLES
  pc,                       \* the position of the modelled call
  payload,                  \* the payload passed in
  batch_size,               \* config.batch_size
  ideal_batch_item_size,    \* config.ideal_batch_item_size
  chunked_payload,          \* the list _extract_payload_chunks returned
  entry,                    \* the method of the engine that called _localize_raw
  concurrent,               \* _localize_raw's concurrent argument
  progress_callback,        \* whether a progress callback was passed
  max_concurrent_requests,  \* the concurrency limit the caller asks for
  retry_max_attempts,       \* the retry_max_attempts the caller configures
  workflow_id,              \* the workflow id the call generated ("": none yet)
  sent_workflow_id,         \* per chunk: the workflowId of its request
  response,                 \* per chunk: what its POST came back with
  send,                     \* per chunk: created, inflight, returned, raised
  returned,                 \* per chunk: the mapping its send returned
  failure,                  \* per chunk: the exception its send raised
  completion_order,         \* the chunks in the order their sends ended
  processed_payload_chunks, \* the list of processed chunks
  progress_calls,           \* the calls of the progress callback so far
  outcome,                  \* of _localize_raw: pending, returned, raised
  result,                   \* the mapping _localize_raw returned
  error,                    \* the exception _localize_raw raised
  handler,                  \* "sync": RetryHandler, "async": AsyncRetryHandler
  config,                   \* the handler's RetryConfiguration
  attempt,                  \* execute_with_retry: the attempt number
  calls,                    \* how often the operation was invoked
  raised_by_func,           \* what the operation raised, attempt by attempt
  retry_history,            \* execute_with_retry: retry_history
  sleeps,                   \* the waits performed, in milliseconds
  retry_outcome,            \* of execute_with_retry: pending, returned, raised
  asked,                    \* a direct call of should_retry and its answer
  computed,                 \* a direct call of calculate_backoff and its result
  retry_after,              \* the Retry-After hint of each failed attempt
  time_budget,              \* the time budget the caller wants kept
  succeeded_at,             \* the invocation at which the operation returned
  retry_callback,           \* the retry_callback argument: none, returns, raises
  callback_calls,           \* the calls of the retry callback so far
  post_outcome,             \* of AsyncHTTPClient.post without a retry handler
  session,                  \* AsyncHTTPClient._session: 0 for None, or a session
  session_state,            \* per session created: "open" or "closed"
  closed,                   \* AsyncHTTPClient._closed
  posts,                    \* per task: the post it runs through the client
  close_calls,              \* how often close() was called
  last_call                 \* the last direct call on the client and its result

cvars == <<payload, batch_size, ideal_batch_item_size>>

dvars ==
  <<entry, concurrent, progress_callback, max_concurrent_requests, retry_max_attempts,
    workflow_id, sent_workflow_id, response, send, returned,
    failure, completion_order, processed_payload_chunks, progress_calls,
    outcome, result, error>>

rvars ==
  <<handler, config, attempt, calls, raised_by_func, retry_history, sleeps,
    retry_outcome, asked, computed, retry_after, time_budget, succeeded_at,
    retry_callback, callback_calls, post_outcome>>

svars == <<session, session_state, closed, posts, close_calls, last_call>>

vars == <<pc, cvars, chunked_payload, dvars, rvars, svars>>

NoOutcome == [kind |-> "pending", attempt |-> 0, max_attempts |-> 0, last_error |-> Exc("", 0, "absent")]

NotAsked == [exception |-> Exc("", 0, "absent"), attempt |-> 0, answer |-> FALSE]

NotComputed == [attempt |-> 0, draw |-> 0, backoff |-> 0]

NoPostOutcome == [kind |-> "pending", error |-> Exc("", 0, "absent")]

\* The retry state when no handler is in use.
RetryIdle ==
  /\ handler = "sync"
  /\ config = [max_retries |-> 3, retry_statuses |-> {429, 500, 502, 503, 504},
               backoff_factor |-> 500, max_backoff |-> 60000, jitter |-> TRUE]
  /\ attempt = 0
  /\ calls = 0
  /\ raised_by_func = <<>>
  /\ retry_history = <<>>
  /\ sleeps = <<>>
  /\ retry_outcome = NoOutcome
  /\ asked = NotAsked
  /\ computed = NotComputed
  /\ retry_after = <<>>
  /\ time_budget = 0
  /\ succeeded_at = 0
  /\ retry_callback = "none"
  /\ callback_calls = <<>>
  /\ post_outcome = NoPostOutcome

\* The state of a client that is not used.
SessionIdle ==
  /\ session = 0
  /\ session_state = <<>>
  /\ closed = FALSE
  /\ posts = <<>>
  /\ close_calls = 0
  /\ last_call = [op |-> "none", result |-> FALSE,
                  before |-> [session |-> 0, session_state |-> <<>>, closed |-> FALSE]]

NoError == [chunk |-> 0, cls |-> ""]

\* The dispatch state of an engine on which _localize_raw is not running.
DispatchIdle ==
  /\ entry = "localize_object"
  /\ concurrent = FALSE
  /\ progress_callback = FALSE
  /\ max_concurrent_requests = 1
  /\ retry_max_attempts = 0
  /\ workflow_id = ""
  /\ sent_workflow_id = <<>>
  /\ response = <<>>
  /\ send = <<>>
  /\ returned = <<>>
  /\ failure = <<>>
  /\ completion_order = <<>>
  /\ processed_payload_chunks = <<>>
  /\ progress_calls = <<>>
  /\ outcome = "pending"
  /\ result = <<>>
  /\ error = NoError

\* A call of _extract_payload_chunks on an engine with any valid configuration.
InitChunks ==
  /\ pc = "extract"
  /\ SessionIdle
  /\ payload \in PayloadsOver(Values)
  /\ batch_size \in Caps
  /\ ideal_batch_item_size \in Caps
  /\ chunked_payload = <<>>
  /\ DispatchIdle
  /\ RetryIdle

ExtractChunks ==
  /\ pc = "extract"
  /\ chunked_payload' =
       ExtractPayloadChunks(payload, batch_size, ideal_batch_item_size)
  /\ pc' = "extracted"
  /\ UNCHANGED <<cvars, svars, dvars, rvars>>

NextChunks == ExtractChunks

SpecChunks == InitChunks /\ [][NextChunks]_vars

-----------------------------------------------------------------------------
(* _localize_raw *)

\* The methods of the engine that call _localize_raw.
EntryPoints == {"localize_object", "localize_text", "localize_chat"}

\* The concurrent argument _localize_raw gets when the caller of the method
\* asks for c: localize_text and localize_chat pass none (the default, False).
PassesConcurrent(method, c) == IF method = "localize_object" THEN c ELSE FALSE

\* Whether _localize_raw gets a progress callback when the caller of the
\* method gave one (f): localize_text and localize_chat always pass their
\* wrapped_progress_callback.
PassesCallback(method, f) == IF method = "localize_object" THEN f ELSE TRUE

\* A call of localize_object, localize_text or localize_chat that has reached
\* _localize_raw, in either mode, with or without a callback, by a caller
\* that asks for the smallest concurrency limit and for no retry. The payload
\* of localize_text and localize_chat has one entry.
InitDispatch ==
  /\ pc = "call"
  /\ SessionIdle
  /\ payload \in PayloadsOver(DispatchValues)
  /\ entry \in EntryPoints
  /\ entry # "localize_object" => Len(payload) = 1
  /\ batch_size \in Caps
  /\ ideal_batch_item_size \in Caps
  /\ chunked_payload = <<>>
  /\ \E c \in BOOLEAN : concurrent = PassesConcurrent(entry, c)
  /\ \E f \in BOOLEAN : progress_callback = PassesCallback(entry, f)
  /\ max_concurrent_requests = 1
  /\ retry_max_attempts = 0
  /\ workflow_id = ""
  /\ sent_workflow_id = <<>>
  /\ response = <<>>
  /\ send = <<>>
  /\ returned = <<>>
  /\ failure = <<>>
  /\ completion_order = <<>>
  /\ processed_payload_chunks = <<>>
  /\ progress_calls = <<>>
  /\ outcome = "pending"
  /\ result = <<>>
  /\ error = NoError
  /\ RetryIdle

\* Mutant: a progress callback does not keep the dispatch from being concurrent.
ConcurrentMode_IgnoresCallback == concurrent

\* if concurrent and not progress_callback
ConcurrentMode == concurrent /\ ~progress_callback

NumChunks == Len(chunked_payload)

InFlight == { i \in 1..Len(send) : send[i] = "inflight" }

\* _localize_raw up to its first await: the payload is partitioned and, in
\* concurrent mode, one task per chunk is created. With no chunk there is
\* nothing to await and the empty result is returned.
LocalizeRawCall(id) ==
  /\ pc = "call"
  /\ workflow_id' = id
  /\ LET chunks == ExtractPayloadChunks(payload, batch_size, ideal_batch_item_size)
         n == Len(chunks)
     IN /\ chunked_payload' = chunks
        /\ send' = [i \in 1..n |-> "created"]
        /\ sent_workflow_id' = [i \in 1..n |-> ""]
        /\ response' = [i \in 1..n |-> ""]
        /\ returned' = [i \in 1..n |-> <<>>]
        /\ failure' = [i \in 1..n |-> ""]
        /\ IF n = 0
             THEN /\ result' = MergeChunks(<<>>, <<>>)
                  /\ outcome' = "returned"
             ELSE UNCHANGED <<result, outcome>>
  /\ pc' = "dispatch"
  /\ UNCHANGED <<rvars, cvars, svars, entry, concurrent, progress_callback, max_concurrent_requests,
                 retry_max_attempts, completion_order, processed_payload_chunks,
                 progress_calls, error>>

\* Mutant: a task that has not started when another failed is cancelled.
TaskStart_UnlessFailed(i) ==
  /\ pc = "dispatch"
  /\ ConcurrentMode
  /\ outcome = "pending"
  /\ send[i] = "created"
  /\ \A j \in 1..(i - 1) : send[j] # "created"
  /\ send' = [send EXCEPT ![i] = "inflight"]
  /\ sent_workflow_id' =
       [sent_workflow_id EXCEPT ![i] = RequestWorkflowId(workflow_id, i)]
  /\ UNCHANGED <<rvars, pc, cvars, svars, chunked_payload, entry, concurrent,
                 progress_callback, max_concurrent_requests, retry_max_attempts,
                 workflow_id, response, returned, failure, completion_order,
                 processed_payload_chunks, progress_calls, outcome, result,
                 error>>

\* Concurrent mode: the event loop starts the task of chunk i, which runs up
\* to its POST. The tasks start in the order gather scheduled them; nothing
\* waits for a free slot, and a task starts whether or not another failed.
TaskStart(i) ==
  /\ pc = "dispatch"
  /\ ConcurrentMode
  /\ send[i] = "created"
  /\ \A j \in 1..(i - 1) : send[j] # "created"
  /\ send' = [send EXCEPT ![i] = "inflight"]
  /\ sent_workflow_id' =
       [sent_workflow_id EXCEPT ![i] = RequestWorkflowId(workflow_id, i)]
  /\ UNCHANGED <<rvars, pc, cvars, svars, chunked_payload, entry, concurrent, progress_callback,
                 max_concurrent_requests, retry_max_attempts, workflow_id,
                 response, returned, failure, completion_order,
                 processed_payload_chunks, progress_calls, outcome, result,
                 error>>

\* Concurrent mode: the POST of chunk i ends and its task finishes. The first
\* task to raise makes gather, and with it _localize_raw, raise its exception.
TaskComplete(i, resp) ==
  /\ pc = "dispatch"
  /\ ConcurrentMode
  /\ send[i] = "inflight"
  /\ LET r == LocalizeChunk(chunked_payload[i], resp)
     IN /\ send' = [send EXCEPT ![i] = IF r.raised = "" THEN "returned" ELSE "raised"]
        /\ response' = [response EXCEPT ![i] = resp]
        /\ returned' = [returned EXCEPT ![i] = r.value]
        /\ failure' = [failure EXCEPT ![i] = r.raised]
        /\ IF GatherPropagates(r.raised) /\ outcome = "pending"
             THEN /\ outcome' = "raised"
                  /\ error' = [chunk |-> i, cls |-> r.raised]
             ELSE UNCHANGED <<outcome, error>>
  /\ completion_order' = Append(completion_order, i)
  /\ UNCHANGED <<rvars, pc, cvars, svars, chunked_payload, entry, concurrent, progress_callback,
                 max_concurrent_requests, retry_max_attempts, workflow_id,
                 sent_workflow_id, processed_payload_chunks, progress_calls,
                 result>>

\* Concurrent mode: every task has finished and none made gather raise;
\* _localize_raw resumes with the list of results, merges it and returns.
GatherDone ==
  /\ pc = "dispatch"
  /\ ConcurrentMode
  /\ outcome = "pending"
  /\ NumChunks > 0
  /\ \A i \in 1..NumChunks : send[i] \in {"returned", "raised"}
  /\ processed_payload_chunks' = GatherResults(returned, completion_order)
  /\ result' = MergeChunks(<<>>, processed_payload_chunks')
  /\ outcome' = "returned"
  /\ UNCHANGED <<rvars, pc, cvars, svars, chunked_payload, entry, concurrent, progress_callback,
                 max_concurrent_requests, retry_max_attempts, workflow_id,
                 sent_workflow_id, response, send, returned, failure,
                 completion_order, progress_calls, error>>

\* Mutant: the loop goes on with the next chunk after a send that failed.
SequentialSend_SkipsFailed ==
  /\ pc = "dispatch"
  /\ ~ConcurrentMode
  /\ InFlight = {}
  /\ LET i == Len(completion_order) + 1
     IN /\ i <= NumChunks
        /\ send[i] = "created"
        /\ send' = [send EXCEPT ![i] = "inflight"]
        /\ sent_workflow_id' =
             [sent_workflow_id EXCEPT ![i] = RequestWorkflowId(workflow_id, i)]
  /\ UNCHANGED <<rvars, pc, cvars, svars, chunked_payload, entry, concurrent,
                 progress_callback, max_concurrent_requests, retry_max_attempts,
                 workflow_id, response, returned, failure, completion_order,
                 processed_payload_chunks, progress_calls, outcome, result,
                 error>>

\* Sequential mode: the loop awaits the send of the next chunk.
SequentialSend ==
  /\ pc = "dispatch"
  /\ ~ConcurrentMode
  /\ outcome = "pending"
  /\ InFlight = {}
  /\ LET i == Len(processed_payload_chunks) + 1
     IN /\ i <= NumChunks
        /\ send[i] = "created"
        /\ send' = [send EXCEPT ![i] = "inflight"]
        /\ sent_workflow_id' =
             [sent_workflow_id EXCEPT ![i] = RequestWorkflowId(workflow_id, i)]
  /\ UNCHANGED <<rvars, pc, cvars, svars, chunked_payload, entry, concurrent, progress_callback,
                 max_concurrent_requests, retry_max_attempts, workflow_id,
                 response, returned, failure, completion_order,
                 processed_payload_chunks, progress_calls, outcome, result,
                 error>>

\* Sequential mode: the awaited send ends. An exception leaves the loop and
\* _localize_raw; a result is reported to the callback and appended, and
\* after the last chunk the results are merged and returned.
SequentialComplete(resp) ==
  /\ pc = "dispatch"
  /\ ~ConcurrentMode
  /\ \E i \in InFlight :
       LET r == LocalizeChunk(chunked_payload[i], resp)
       IN /\ send' = [send EXCEPT ![i] = IF r.raised = "" THEN "returned" ELSE "raised"]
          /\ response' = [response EXCEPT ![i] = resp]
          /\ returned' = [returned EXCEPT ![i] = r.value]
          /\ failure' = [failure EXCEPT ![i] = r.raised]
          /\ completion_order' = Append(completion_order, i)
          /\ IF r.raised # ""
               THEN /\ outcome' = "raised"
                    /\ error' = [chunk |-> i, cls |-> r.raised]
                    /\ UNCHANGED <<processed_payload_chunks, progress_calls, result>>
               ELSE /\ progress_calls' =
                         IF progress_callback
                           THEN Append(progress_calls,
                                       [percentage |-> PercentageCompleted(i, NumChunks),
                                        source |-> chunked_payload[i],
                                        processed |-> r.value])
                           ELSE progress_calls
                    /\ processed_payload_chunks' = Append(processed_payload_chunks, r.value)
                    /\ IF i = NumChunks
                         THEN /\ result' = MergeChunks(<<>>, processed_payload_chunks')
                              /\ outcome' = "returned"
                         ELSE UNCHANGED <<result, outcome>>
                    /\ UNCHANGED error
  /\ UNCHANGED <<rvars, pc, cvars, svars, chunked_payload, entry, concurrent, progress_callback,
                 max_concurrent_requests, retry_max_attempts, workflow_id,
                 sent_workflow_id>>

\* One response for each way _localize_chunk can end: the data, no data, a
\* RuntimeError, a ValueError.
DispatchResponses == {"data", "no_data", "status_5xx", "status_400"}

NextDispatch ==
  \/ \E id \in WorkflowIds : LocalizeRawCall(id)
  \/ \E i \in 1..NumChunks : TaskStart(i)
  \/ \E i \in 1..NumChunks, resp \in DispatchResponses : TaskComplete(i, resp)
  \/ GatherDone
  \/ SequentialSend
  \/ \E resp \in DispatchResponses : SequentialComplete(resp)

SpecDispatch == InitDispatch /\ [][NextDispatch]_vars

-----------------------------------------------------------------------------
(* _localize_raw with a progress callback, over many chunks *)

\* A payload of n one-word entries.
UniformPayload(n) == [i \in 1..n |-> <<i, Str(<<"a">>)>>]

\* A call of _localize_raw with a progress callback on a payload that caps
\* of 1 split into one chunk per entry, up to MaxChunks chunks.
InitProgress ==
  /\ pc = "call"
  /\ SessionIdle
  /\ payload \in { UniformPayload(n) : n \in 1..MaxChunks }
  /\ batch_size = 1
  /\ ideal_batch_item_size = 1
  /\ chunked_payload = <<>>
  /\ entry = "localize_object"
  /\ concurrent \in BOOLEAN
  /\ progress_callback = TRUE
  /\ max_concurrent_requests = 1
  /\ retry_max_attempts = 0
  /\ workflow_id = ""
  /\ sent_workflow_id = <<>>
  /\ response = <<>>
  /\ send = <<>>
  /\ returned = <<>>
  /\ failure = <<>>
  /\ completion_order = <<>>
  /\ processed_payload_chunks = <<>>
  /\ progress_calls = <<>>
  /\ outcome = "pending"
  /\ result = <<>>
  /\ error = NoError
  /\ RetryIdle

\* The responses of the sends: the data asked for, or a server error.
ProgressResponses == {"data", "status_5xx"}

NextProgress ==
  \/ \E id \in WorkflowIds : LocalizeRawCall(id)
  \/ SequentialSend
  \/ \E resp \in ProgressResponses : SequentialComplete(resp)

SpecProgress == InitProgress /\ [][NextProgress]_vars

-----------------------------------------------------------------------------
(* _localize_raw called by a caller that configures retries and a limit *)

\* The values of retry_max_attempts a caller configures: none, and two.
EngineRetryLimits == {0, 2}

\* A call of _localize_raw on a payload of up to MaxSendChunks entries that
\* caps of 1 split into one chunk per entry, on an engine created with a
\* retry_max_attempts and a concurrency limit.
InitSends ==
  /\ pc = "call"
  /\ SessionIdle
  /\ payload \in { UniformPayload(n) : n \in 1..MaxSendChunks }
  /\ batch_size = 1
  /\ ideal_batch_item_size = 1
  /\ chunked_payload = <<>>
  /\ entry = "localize_object"
  /\ concurrent \in BOOLEAN
  /\ progress_callback = FALSE
  /\ max_concurrent_requests \in Limits
  /\ retry_max_attempts \in EngineRetryLimits
  /\ workflow_id = ""
  /\ sent_workflow_id = <<>>
  /\ response = <<>>
  /\ send = <<>>
  /\ returned = <<>>
  /\ failure = <<>>
  /\ completion_order = <<>>
  /\ processed_payload_chunks = <<>>
  /\ progress_calls = <<>>
  /\ outcome = "pending"
  /\ result = <<>>
  /\ error = NoError
  /\ RetryIdle

NextSends ==
  \/ \E id \in WorkflowIds : LocalizeRawCall(id)
  \/ \E i \in 1..NumChunks : TaskStart(i)
  \/ \E i \in 1..NumChunks, resp \in Responses : TaskComplete(i, resp)
  \/ GatherDone
  \/ SequentialSend
  \/ \E resp \in Responses : SequentialComplete(resp)

SpecSends == InitSends /\ [][NextSends]_vars

-----------------------------------------------------------------------------
(* RetryHandler and AsyncRetryHandler *)

\* A handler of either kind with any configuration, before a call.
InitRetry ==
  /\ pc = "handler"
  /\ SessionIdle
  /\ payload = <<>>
  /\ batch_size = 1
  /\ ideal_batch_item_size = 1
  /\ chunked_payload = <<>>
  /\ DispatchIdle
  /\ handler \in {"sync", "async"}
  /\ config \in RetryConfigurations
  /\ attempt = 0
  /\ calls = 0
  /\ raised_by_func = <<>>
  /\ retry_history = <<>>
  /\ sleeps = <<>>
  /\ retry_outcome = NoOutcome
  /\ asked = NotAsked
  /\ computed = NotComputed
  /\ retry_after = <<>>
  /\ time_budget = 0
  /\ succeeded_at = 0
  /\ retry_callback = "none"
  /\ callback_calls = <<>>
  /\ post_outcome = NoPostOutcome

\* max_attempts = max(1, self.config.max_retries)
MaxAttempts == Max(1, config.max_retries)

\* A direct call of should_retry.
ShouldRetryCall(e, n) ==
  /\ pc = "handler"
  /\ asked' = [exception |-> e, attempt |-> n,
               answer |-> ShouldRetry(handler, config, e, n)]
  /\ pc' = "asked"
  /\ UNCHANGED <<cvars, svars, chunked_payload, dvars, handler, config, attempt, calls,
                 raised_by_func, retry_history, sleeps, retry_outcome, computed,
                 retry_after, time_budget, succeeded_at, retry_callback,
                 callback_calls, post_outcome>>

\* A direct call of calculate_backoff.
CalculateBackoffCall(n, draw) ==
  /\ pc = "handler"
  /\ computed' = [attempt |-> n, draw |-> draw,
                  backoff |-> CalculateBackoff(config, n, draw)]
  /\ pc' = "computed"
  /\ UNCHANGED <<cvars, svars, chunked_payload, dvars, handler, config, attempt, calls,
                 raised_by_func, retry_history, sleeps, retry_outcome, asked,
                 retry_after, time_budget, succeeded_at, retry_callback,
                 callback_calls, post_outcome>>

\* execute_with_retry is called with a retry callback (or none) by a caller
\* that wants the time budget kept (the handler has no parameter for it): the
\* loop starts with attempt 1.
ExecuteWithRetry(budget, callback) ==
  /\ pc = "handler"
  /\ attempt' = 1
  /\ time_budget' = budget
  /\ retry_callback' = callback
  /\ pc' = "attempt"
  /\ UNCHANGED <<cvars, svars, chunked_payload, dvars, handler, config, calls,
                 raised_by_func, retry_history, sleeps, retry_outcome, asked,
                 computed, retry_after, succeeded_at, callback_calls,
                 post_outcome>>

\* Mutant: the result of the operation is dropped and the loop goes on.
AttemptSucceeds_Continues ==
  /\ pc = "attempt"
  /\ calls' = calls + 1
  /\ succeeded_at' = calls + 1
  /\ attempt' = attempt + 1
  /\ UNCHANGED <<pc, cvars, svars, chunked_payload, dvars, handler, config,
                 raised_by_func, retry_history, sleeps, retry_outcome, asked,
                 computed, retry_after, time_budget, retry_callback,
                 callback_calls, post_outcome>>

\* The operation is invoked and returns: execute_with_retry returns its result.
AttemptSucceeds ==
  /\ pc = "attempt"
  /\ calls' = calls + 1
  /\ succeeded_at' = calls + 1
  /\ retry_outcome' = [NoOutcome EXCEPT !.kind = "returned", !.attempt = attempt,
                                        !.max_attempts = MaxAttempts]
  /\ pc' = "done"
  /\ UNCHANGED <<cvars, svars, chunked_payload, dvars, handler, config, attempt,
                 raised_by_func, retry_history, sleeps, asked, computed,
                 retry_after, time_budget, retry_callback, callback_calls,
                 post_outcome>>

\* The operation is invoked and raises raw. The exception is converted and
\* recorded with the time elapsed (the clock advances by the waits); either
\* LingoDevRetryExhaustedError is raised, or the backoff is computed, the
\* retry callback (if any) is called and the wait begins. An exception raised
\* by the conversion itself leaves execute_with_retry as it is. hint is the
\* Retry-After value the failed response carried, which nothing reads.
AttemptFails(raw, draw, hint) ==
  /\ pc = "attempt"
  /\ calls' = calls + 1
  /\ raised_by_func' = Append(raised_by_func, raw)
  /\ retry_after' = Append(retry_after, hint)
  /\ LET e == ConvertException(handler, raw)
         should_retry == ShouldRetry(handler, config, e, attempt)
         backoff_time == CalculateBackoff(config, attempt, draw)
         retry_record == [attempt |-> attempt, exception_type |-> e.cls,
                          elapsed |-> SumSeq(sleeps),
                          has_backoff_time |-> FALSE, backoff_time |-> 0]
     IN IF e.cls = "AttributeError"
          THEN /\ retry_outcome' = [kind |-> "raised_other", attempt |-> attempt,
                                    max_attempts |-> MaxAttempts, last_error |-> e]
               /\ pc' = "done"
               /\ UNCHANGED <<retry_history, sleeps, callback_calls>>
        ELSE IF ~should_retry \/ attempt >= MaxAttempts
          THEN /\ retry_history' = Append(retry_history, retry_record)
               /\ retry_outcome' = [kind |-> "exhausted", attempt |-> attempt,
                                    max_attempts |-> MaxAttempts, last_error |-> e]
               /\ pc' = "done"
               /\ UNCHANGED <<sleeps, callback_calls>>
        ELSE /\ retry_history' =
                  Append(retry_history, [retry_record EXCEPT !.has_backoff_time = TRUE,
                                                             !.backoff_time = backoff_time])
             /\ callback_calls' =
                  IF retry_callback # "none"
                    THEN Append(callback_calls,
                                [attempt |-> attempt, exception |-> e,
                                 backoff_time |-> backoff_time])
                    ELSE callback_calls
             /\ IF retry_callback # "none" /\ CallbackPropagates(retry_callback)
                  THEN /\ retry_outcome' = [kind |-> "raised_callback", attempt |-> attempt,
                                            max_attempts |-> MaxAttempts, last_error |-> e]
                       /\ pc' = "done"
                       /\ UNCHANGED sleeps
                  ELSE /\ sleeps' = Append(sleeps, backoff_time)
                       /\ pc' = "sleep"
                       /\ UNCHANGED retry_outcome
  /\ UNCHANGED <<cvars, svars, chunked_payload, dvars, handler, config, attempt, asked,
                 computed, time_budget, succeeded_at, retry_callback,
                 post_outcome>>

\* Mutant: after the wait the loop starts again with attempt 1.
SleepEnds_Restarts ==
  /\ pc = "sleep"
  /\ attempt' = 1
  /\ pc' = "attempt"
  /\ UNCHANGED <<cvars, svars, chunked_payload, dvars, handler, config, calls,
                 raised_by_func, retry_history, sleeps, retry_outcome, asked,
                 computed, retry_after, time_budget, succeeded_at,
                 retry_callback, callback_calls, post_outcome>>

\* The wait ends and the loop goes on with the next attempt; were there none
\* left in range(1, max_attempts + 1), the loop would end and the
\* RuntimeError after it be raised.
SleepEnds ==
  /\ pc = "sleep"
  /\ IF attempt < MaxAttempts
       THEN /\ attempt' = attempt + 1
            /\ pc' = "attempt"
            /\ UNCHANGED retry_outcome
       ELSE /\ retry_outcome' = [kind |-> "unexpected_end", attempt |-> attempt,
                                 max_attempts |-> MaxAttempts,
                                 last_error |-> Exc("RuntimeError", 0, "absent")]
            /\ pc' = "done"
            /\ UNCHANGED attempt
  /\ UNCHANGED <<cvars, svars, chunked_payload, dvars, handler, config, calls,
                 raised_by_func, retry_history, sleeps, asked,
                 computed, retry_after, time_budget, succeeded_at,
                 retry_callback, callback_calls, post_outcome>>

\* The values of random.random() that are drawn (none without jitter).
Draws == IF config.jitter THEN 0..(JitterGrain - 1) ELSE {0}

NextRetry ==
  \/ \E e \in TypedErrors \cup UntypedErrors, n \in 1..MaxAttempt : ShouldRetryCall(e, n)
  \/ \E n \in 1..MaxBackoffAttempt, draw \in Draws : CalculateBackoffCall(n, draw)
  \/ \E budget \in Budgets : ExecuteWithRetry(budget, "none")
  \/ AttemptSucceeds
  \/ \E raw \in OperationFailures, draw \in Draws :
       \E hint \in RetryAfterHints(raw) : AttemptFails(raw, draw, hint)
  \/ SleepEnds

SpecRetry == InitRetry /\ [][NextRetry]_vars

-----------------------------------------------------------------------------
(* execute_with_retry called with a retry callback *)

\* The configurations with the default retry_statuses.
CallbackConfigurations ==
  { c \in RetryConfigurations : c.retry_statuses = {429, 500, 502, 503, 504} }

\* What the operation raises in the runs with a callback.
CallbackFailures ==
  { NetworkError, APIError(500), APIError(404),
    Exc("requests.ConnectionError", 0, "none"),
    Exc("aiohttp.ClientResponseError", 503, "absent") }

\* A handler of either kind, before a call of execute_with_retry.
InitCallback ==
  /\ pc = "handler"
  /\ SessionIdle
  /\ payload = <<>>
  /\ batch_size = 1
  /\ ideal_batch_item_size = 1
  /\ chunked_payload = <<>>
  /\ DispatchIdle
  /\ handler \in {"sync", "async"}
  /\ config \in CallbackConfigurations
  /\ attempt = 0
  /\ calls = 0
  /\ raised_by_func = <<>>
  /\ retry_history = <<>>
  /\ sleeps = <<>>
  /\ retry_outcome = NoOutcome
  /\ asked = NotAsked
  /\ computed = NotComputed
  /\ retry_after = <<>>
  /\ time_budget = 0
  /\ succeeded_at = 0
  /\ retry_callback = "none"
  /\ callback_calls = <<>>
  /\ post_outcome = NoPostOutcome

NextCallback ==
  \/ \E budget \in Budgets, callback \in RetryCallbacks :
       ExecuteWithRetry(budget, callback)
  \/ AttemptSucceeds
  \/ \E raw \in CallbackFailures, draw \in Draws : AttemptFails(raw, draw, 0)
  \/ SleepEnds

SpecCallback == InitCallback /\ [][NextCallback]_vars

-----------------------------------------------------------------------------
(* Properties of _localize_raw *)

\* Every send returned a mapping holding exactly its chunk's keys, in the
\* chunk's order.
SendsEchoKeys ==
  \A i \in 1..NumChunks :
    send[i] = "returned" /\ KeysOf(returned[i]) = KeysOf(chunked_payload[i])

\* C1: when every send returns its chunk's keys in the chunk's order, the
\* mapping _localize_raw returns iterates its keys in the payload's key order,
\* whatever the order in which the sends completed.
C1_OrderPreserved ==
  (outcome = "returned" /\ SendsEchoKeys) => KeysOf(result) = KeysOf(payload)

\* A concurrent dispatch whose last chunk's send completed first, with a
\* chunk of several keys and a payload whose keys are not in sorted order.
C1_Witness ==
  /\ outcome = "returned"
  /\ SendsEchoKeys
  /\ ConcurrentMode
  /\ NumChunks >= 2
  /\ completion_order[1] = NumChunks
  /\ \E j \in 1..NumChunks : Len(chunked_payload[j]) >= 2
  /\ payload[1][1] > payload[2][1]

\* C2: in a concurrent dispatch the number of chunk sends in flight is at
\* most the concurrency limit at every moment.
C2_ConcurrencyLimit ==
  ConcurrentMode => Cardinality(InFlight) <= max_concurrent_requests

\* C3: _localize_raw returns only when the send of every chunk returned, and
\* then the merge of all the chunks' results in chunk order; when it raises,
\* it raises the exception of a chunk whose send failed. It never returns
\* while a chunk has failed or has no result.
C3_AllOrNothing ==
  /\ outcome = "returned" =>
       /\ \A i \in 1..NumChunks : send[i] = "returned"
       /\ result = MergeChunks(<<>>, [i \in 1..NumChunks |-> returned[i]])
  /\ outcome = "raised" =>
       /\ error.chunk \in 1..NumChunks
       /\ send[error.chunk] = "raised"
       /\ error.cls = failure[error.chunk]
       /\ result = <<>>
  /\ outcome = "pending" => result = <<>>

\* A concurrent dispatch that raised although the sends of other chunks
\* returned, before and after the failure.
C3_Witness ==
  /\ outcome = "raised"
  /\ ConcurrentMode
  /\ NumChunks >= 3
  /\ Len(completion_order) = NumChunks
  /\ send[completion_order[1]] = "returned"
  /\ send[completion_order[2]] = "raised"
  /\ send[completion_order[3]] = "returned"

-----------------------------------------------------------------------------
(* Properties of the partitioner *)

RECURSIVE Concat(_)
Concat(ss) == IF ss = <<>> THEN <<>> ELSE ss[1] \o Concat(Tail(ss))

Extracted == pc = "extracted"

ChunkIndexes == 1..Len(chunked_payload)

\* The positions of the payload after which a chunk ends.
Boundaries ==
  { Len(Concat(SubSeq(chunked_payload, 1, j))) : j \in ChunkIndexes }

\* The last chunk end before entry i (0 when entry i is in the first chunk).
PrevBoundary(i) ==
  CHOOSE b \in {0} \cup Boundaries :
    /\ b < i
    /\ \A c \in {0} \cup Boundaries : c < i => c <= b

\* C4: the chunks are an exact cover of the payload: their keys, concatenated
\* in chunk order and in-chunk order, are the payload's key sequence, and
\* every key of the payload is in exactly one chunk.
C4_ExactCover ==
  Extracted =>
    /\ KeysOf(Concat(chunked_payload)) = KeysOf(payload)
    /\ \A i \in 1..Len(payload) :
         Cardinality({ j \in ChunkIndexes :
                         HasKey(chunked_payload[j], payload[i][1]) }) = 1

C4_Witness ==
  /\ Extracted
  /\ Len(payload) >= 3
  /\ Len(chunked_payload) = 2
  /\ Len(chunked_payload[1]) = 2

\* C5: every chunk holds at most batch_size entries.
C5_ItemCap ==
  Extracted => \A j \in ChunkIndexes : Len(chunked_payload[j]) <= batch_size

C5_Witness ==
  /\ Extracted
  /\ batch_size >= 2
  /\ Len(payload) > batch_size
  /\ \E j \in ChunkIndexes : Len(chunked_payload[j]) = batch_size

\* C6 as stated: a chunk whose word count is above ideal_batch_item_size
\* consists of one single entry.
C6_SizeCapAsStated ==
  Extracted =>
    \A j \in ChunkIndexes :
      CountWordsInChunk(chunked_payload[j]) > ideal_batch_item_size
        => Len(chunked_payload[j]) = 1

\* C6 as amended: the entries of a chunk before its last one total at most
\* ideal_batch_item_size words: a chunk exceeds the size cap only through the
\* entry that closes it.
C6_SizeCapBeforeLastEntry ==
  Extracted =>
    \A j \in ChunkIndexes :
      LET chunk == chunked_payload[j]
      IN CountWordsInChunk(SubSeq(chunk, 1, Len(chunk) - 1))
           <= ideal_batch_item_size

C6_Witness ==
  /\ Extracted
  /\ \E j \in ChunkIndexes :
       /\ Len(chunked_payload[j]) >= 2
       /\ CountWordsInChunk(chunked_payload[j]) > ideal_batch_item_size

\* C7: a chunk ends after entry i exactly when, with entry i added, the
\* current chunk's word count exceeds ideal_batch_item_size, or its item
\* count has reached batch_size, or entry i is the last of the payload; an
\* empty payload gives no chunk, and no chunk is empty.
C7_ClosingRule ==
  Extracted =>
    /\ Concat(chunked_payload) = payload
    /\ \A j \in ChunkIndexes : chunked_payload[j] # <<>>
    /\ payload = <<>> => chunked_payload = <<>>
    /\ \A i \in 1..Len(payload) :
         LET current == SubSeq(payload, PrevBoundary(i) + 1, i)
         IN i \in Boundaries <=>
              \/ CountWordsInChunk(current) > ideal_batch_item_size
              \/ Len(current) >= batch_size
              \/ i = Len(payload)

\* {"a": "hello world", "b": "x"} with a size cap of 1 and an item cap above
\* the payload's length gives [{"a": ...}, {"b": ...}].
C7_Witness ==
  /\ Extracted
  /\ Len(payload) = 2
  /\ CountWordsInRecord(payload[1][2]) = 2
  /\ CountWordsInRecord(payload[2][2]) = 1
  /\ ideal_batch_item_size = 1
  /\ batch_size > Len(payload)
  /\ chunked_payload = << <<payload[1]>>, <<payload[2]>> >>

-----------------------------------------------------------------------------
(* Properties of the retry handlers *)

\* The failures the exception classes themselves call retryable: an API
\* error whose is_retryable holds, or a network error.
RetryableFailure(e) ==
  \/ IsAPIError(e) /\ APIErrorIsRetryable(e, config)
  \/ IsNetworkError(e)

\* C8: for a retryable failure (an API error with a retryable status or a
\* network error) should_retry answers false exactly when the 1-based attempt
\* has reached max_retries, in RetryHandler and in AsyncRetryHandler.
C8_RetryCap ==
  (pc = "asked" /\ RetryableFailure(asked.exception))
    => (asked.answer = FALSE <=> asked.attempt >= config.max_retries)

\* should_retry was asked about a rate-limit error at the cap itself and
\* refused, in the asynchronous handler with a cap above 1.
C8_Witness ==
  /\ pc = "asked"
  /\ handler = "async"
  /\ asked.exception = APIError(429)
  /\ config.max_retries >= 2
  /\ asked.attempt = config.max_retries
  /\ asked.answer = FALSE

\* C9: while attempts remain, a typed API error is retried if and only if
\* its status is in the configured retry_statuses.
C9_ConfiguredRetryableSet ==
  (pc = "asked" /\ IsAPIError(asked.exception) /\ asked.attempt < config.max_retries)
    => (asked.answer <=> asked.exception.status \in config.retry_statuses)

\* The failures outside the retryable classes: a malformed request, an
\* authentication failure, a validation or parse failure (the latter also as
\* an ordinary exception).
OutsideRetryableClasses(e) ==
  \/ IsAPIError(e) /\ e.status \in {400, 401}
  \/ e.cls \in {"LingoDevValidationError", "ValueError"}

\* C10: when the operation fails with something outside the retryable
\* classes, execute_with_retry has invoked it exactly once, has not waited,
\* and has failed.
C10_NeverRetried ==
  (raised_by_func # <<>> /\ OutsideRetryableClasses(raised_by_func[1]))
    => (calls = 1 /\ sleeps = <<>> /\ pc = "done")

\* An exception that carries an HTTP status for the handler: a typed API
\* error, an exception with a response, or (asynchronous handler) an aiohttp
\* response error.
CarriesHTTPStatus(e) ==
  \/ IsAPIError(e)
  \/ e.resp \in {"real", "mock"}
  \/ handler = "async" /\ e.cls = "aiohttp.ClientResponseError"

RetryableStatuses == {429, 500, 502, 503, 504} \cap config.retry_statuses

\* A retryable failure of the operation: a network-transport failure, or an
\* HTTP failure with a retryable status.
RetryableOperationFailure(e) ==
  \/ e.cls \in { "LingoDevNetworkError", "LingoDevTimeoutError", "ConnectionError",
                 "TimeoutError", "requests.ConnectionError", "requests.Timeout",
                 "aiohttp.ClientConnectionError" }
  \/ CarriesHTTPStatus(e) /\ e.status \in RetryableStatuses

\* Every invocation of the operation so far has failed, retryably.
AllAttemptsFailedRetryably ==
  /\ calls > 0
  /\ Len(raised_by_func) = calls
  /\ \A i \in 1..calls : RetryableOperationFailure(raised_by_func[i])

\* C12: if the operation fails with a retryable failure on every attempt,
\* execute_with_retry invokes it exactly max(1, max_retries) times and raises
\* LingoDevRetryExhaustedError with that attempt count, that many history
\* records and the (converted) failure of the final attempt as last error.
C12_Exhaustion ==
  (pc = "done" /\ AllAttemptsFailedRetryably)
    => /\ retry_outcome.kind = "exhausted"
       /\ calls = Max(1, config.max_retries)
       /\ retry_outcome.attempt = Max(1, config.max_retries)
       /\ Len(retry_history) = Max(1, config.max_retries)
       /\ retry_outcome.last_error = ConvertException(handler, raised_by_func[calls])

\* C13: with max_retries = 0 the operation is invoked exactly once and no
\* wait occurs; the execution returns, or raises LingoDevRetryExhaustedError
\* with attempt 1 and max_attempts 1.
C13_ZeroNormalized ==
  (config.max_retries = 0 /\ pc = "done" /\ calls > 0)
    => /\ calls = 1
       /\ sleeps = <<>>
       /\ \/ retry_outcome.kind = "returned"
          \/ /\ retry_outcome.kind = "exhausted"
             /\ retry_outcome.attempt = 1
             /\ retry_outcome.max_attempts = 1

\* C14: every exception of the operation that is not SDK-typed is converted
\* to an SDK-typed error before the retry decision: each failed attempt has a
\* history record of an SDK-typed error, and an execution that ends in
\* failure ends exhausted with an SDK-typed last error.
C14_WrappedBeforeClassification ==
  /\ (raised_by_func # <<>> /\ pc \in {"sleep", "done"})
       => /\ Len(retry_history) = Len(raised_by_func)
          /\ \A i \in 1..Len(retry_history) :
               retry_history[i].exception_type \in
                 { "LingoDevAPIError", "LingoDevNetworkError", "LingoDevTimeoutError",
                   "LingoDevValidationError" }
  /\ (pc = "done" /\ calls > 0 /\ retry_outcome.kind # "returned")
       => /\ retry_outcome.kind = "exhausted"
          /\ IsLingoDevError(retry_outcome.last_error)

-----------------------------------------------------------------------------
(* Properties of the backoff *)

\* calculate_backoff was called directly and has returned.
Computed == pc = "computed"

\* C15: with jitter disabled calculate_backoff(n) is
\* min(backoff_factor * 2^(n-1), max_backoff); the delay of attempt n+1 is
\* not below that of attempt n, it is its double while the double is within
\* the cap, and max_backoff from then on.
C15_BackoffGrowth ==
  (Computed /\ ~config.jitter)
    => LET n == computed.attempt
           delay == computed.backoff
           next == CalculateBackoff(config, n + 1, 0)
       IN /\ delay = Min(config.backoff_factor * 2^(n - 1), config.max_backoff)
          /\ next >= delay
          /\ 2 * delay <= config.max_backoff => next = 2 * delay
          /\ 2 * delay > config.max_backoff => next = config.max_backoff

\* Without jitter the delay of an attempt lies at the cap, below which the
\* exponential value of the attempt before it still was.
C15_Witness ==
  /\ Computed
  /\ ~config.jitter
  /\ computed.attempt >= 2
  /\ computed.backoff = config.max_backoff
  /\ config.backoff_factor * 2^(computed.attempt - 2) < config.max_backoff

WithinJitteredCap(wait) ==
  /\ wait >= 0
  /\ ~config.jitter => wait <= config.max_backoff
  /\ config.jitter => 4 * wait <= 5 * config.max_backoff

C17_WaitAtLeastHint ==
  \A i \in 1..Len(sleeps) : sleeps[i] >= retry_after[i]

\* C18: with a time budget, no wait is begun that pushes the time elapsed
\* (at least the waits made) past the budget.
C18_TimeBudgetKept ==
  time_budget > 0 => SumSeq(sleeps) <= time_budget

-----------------------------------------------------------------------------
(* Properties of the progress callback *)

\* The chunks whose send has returned.
SucceededChunks == { i \in 1..Len(send) : send[i] = "returned" }

\* The k-th invocation of the callback carries the k-th chunk of the
\* partition and what its send returned.
CallbackCarriesChunks ==
  \A k \in 1..Len(progress_calls) :
    /\ progress_calls[k].source = chunked_payload[k]
    /\ progress_calls[k].processed = returned[k]

\* One invocation for each chunk whose send has returned, and for no other.
CallbackOncePerSucceededChunk ==
  /\ Len(progress_calls) = Cardinality(SucceededChunks)
  /\ SucceededChunks = 1..Len(progress_calls)

\* C19: with a progress callback, the callback is invoked exactly once for
\* each chunk after its send succeeded, with the source chunk, the processed
\* chunk and the percentage round(100 * completed / total), which lies in
\* 0..100; the last invocation of a successful dispatch reports 100.
C19_ProgressReporting ==
  progress_callback
    => /\ CallbackOncePerSucceededChunk
       /\ CallbackCarriesChunks
       /\ \A k \in 1..Len(progress_calls) :
            /\ progress_calls[k].percentage = RoundHalfEven(100 * k, NumChunks)
            /\ progress_calls[k].percentage \in 0..100
       /\ (outcome = "returned" /\ NumChunks > 0)
            => progress_calls[NumChunks].percentage = 100

\* C20 as stated: in sequential dispatch the k-th invocation carries the k-th
\* chunk and each percentage is strictly greater than the one before it, for
\* every number of chunks.
C20_StrictlyIncreasing ==
  (progress_callback /\ ~ConcurrentMode)
    => /\ CallbackCarriesChunks
       /\ \A k \in 2..Len(progress_calls) :
            progress_calls[k].percentage > progress_calls[k - 1].percentage

\* C20 amended: the k-th invocation carries the k-th chunk, the percentages
\* never decrease, and they increase strictly when the partition has at most
\* 100 chunks.
C20_IncreasingUpTo100Chunks ==
  (progress_callback /\ ~ConcurrentMode)
    => /\ CallbackCarriesChunks
       /\ \A k \in 2..Len(progress_calls) :
            /\ progress_calls[k].percentage >= progress_calls[k - 1].percentage
            /\ NumChunks <= 100
                 => progress_calls[k].percentage > progress_calls[k - 1].percentage

\* A dispatch over exactly 100 chunks has reported every one of them.
C20_Witness ==
  /\ progress_callback
  /\ NumChunks = 100
  /\ Len(progress_calls) = 100
  /\ outcome = "returned"

-----------------------------------------------------------------------------
(* Properties of the chunk sends of a dispatch *)

\* The number of POSTs made for chunk i: _localize_chunk posts once.
Posts(i) == IF send[i] = "created" THEN 0 ELSE 1

\* The responses that are retryable failures: a 5xx status or a network error.
RetryableResponses == {"status_5xx", "request_error"}

\* C21: when 3 chunks are dispatched concurrently with limit 2 by a caller
\* that allows two retries, chunks 1 and 3 get their data at once and the
\* first send of chunk 2 meets a status 500, the dispatch does not raise:
\* chunk 2 is sent again, and once it returned the merged result holds the
\* keys of all three chunks in the original order after 3 sends of chunk 2.
C21_RetryInsideDispatch ==
  ( /\ pc = "dispatch"
    /\ ConcurrentMode
    /\ NumChunks = 3
    /\ max_concurrent_requests = 2
    /\ retry_max_attempts = 2
    /\ response[1] \in {"", "data"}
    /\ response[3] \in {"", "data"}
    /\ response[2] = "status_5xx" )
  => /\ outcome # "raised"
     /\ send[2] # "raised"
     /\ outcome = "returned" =>
          (KeysOf(result) = KeysOf(payload) /\ Posts(2) = 3)

\* C22: a chunk send that gave up after a retryable failure made exactly
\* retry_max_attempts + 1 POSTs, and a chunk whose send met a 4xx status
\* other than 429 was posted once.
C22_ChunkSendsRetried ==
  \A i \in 1..Len(send) :
    /\ (send[i] = "raised" /\ response[i] \in RetryableResponses)
         => Posts(i) = retry_max_attempts + 1
    /\ (send[i] = "raised" /\ response[i] = "status_400") => Posts(i) = 1

\* C23: every request a call of _localize_raw has sent carries the workflow
\* id the call generated, which is not empty, in either mode.
C23_WorkflowIdConsistency ==
  pc = "dispatch" =>
    /\ workflow_id # ""
    /\ \A i \in 1..Len(send) :
         send[i] # "created" => sent_workflow_id[i] = workflow_id

\* Three chunks were sent concurrently and each request carries the id "id2"
\* the call generated.
C23_Witness ==
  /\ pc = "dispatch"
  /\ ConcurrentMode
  /\ NumChunks = 3
  /\ workflow_id = "id2"
  /\ \A i \in 1..3 : send[i] = "inflight" /\ sent_workflow_id[i] = "id2"

\* C24: a chunk is started only while one of the max_concurrent_requests
\* slots is free, a slot being taken by every chunk that was started and has
\* neither succeeded nor given up.
C24_SlotHeldThroughLifecycle ==
  [][ConcurrentMode =>
       \A j \in 1..Len(send) :
         (send[j] = "created" /\ send'[j] = "inflight")
           => Cardinality(InFlight) < max_concurrent_requests]_vars

-----------------------------------------------------------------------------
(* Properties of an execution of execute_with_retry *)

\* C25: when the operation returns at its k-th invocation, after k - 1
\* failures, execute_with_retry has returned at attempt k <= max_attempts
\* after exactly k invocations: nothing is invoked after a success and no
\* LingoDevRetryExhaustedError is raised.
C25_SuccessEndsExecution ==
  succeeded_at > 0 =>
    /\ pc = "done"
    /\ retry_outcome.kind = "returned"
    /\ retry_outcome.attempt = succeeded_at
    /\ calls = succeeded_at
    /\ Len(raised_by_func) = succeeded_at - 1
    /\ succeeded_at <= MaxAttempts

\* The asynchronous handler returned at the third attempt, after a network
\* error and a server error.
C25_Witness ==
  /\ pc = "done"
  /\ handler = "async"
  /\ raised_by_func = <<NetworkError, APIError(500)>>
  /\ succeeded_at = 3
  /\ calls = 3
  /\ retry_outcome.kind = "returned"

\* min(backoff_factor * 2^(k-1), max_backoff), in milliseconds
ExponentialDelay(k) == Min(config.backoff_factor * Pow2(k - 1), config.max_backoff)

\* wait is a value of calculate_backoff(k): the exponential delay, plus with
\* jitter a quarter of it times a value of random.random().
IsDelayOf(k, wait) ==
  IF config.jitter
    THEN \E draw \in Draws :
           wait = ExponentialDelay(k) + (ExponentialDelay(k) * 25 * draw) \div (100 * JitterGrain)
    ELSE wait = ExponentialDelay(k)

\* C26: before attempt k + 1 exactly k waits have been performed, the k-th
\* of them, begun after failed attempt k, for calculate_backoff(k); an
\* execution that has ended after n invocations has performed n - 1 waits,
\* so that no wait follows a success or the terminal failure.
C26_WaitSchedule ==
  /\ pc = "attempt" => (Len(sleeps) = attempt - 1 /\ calls = attempt - 1)
  /\ pc = "sleep" => (Len(sleeps) = attempt /\ calls = attempt)
  /\ (pc = "done" /\ calls > 0) => Len(sleeps) = calls - 1
  /\ succeeded_at > 0 => Len(sleeps) = Len(raised_by_func)
  /\ \A k \in 1..Len(sleeps) : IsDelayOf(k, sleeps[k])

\* Two failures and a success without jitter: waits of 100 ms and 200 ms.
C26_Witness ==
  /\ pc = "done"
  /\ succeeded_at = 3
  /\ Len(raised_by_func) = 2
  /\ ~config.jitter
  /\ sleeps = <<100, 200>>

\* C27: when LingoDevRetryExhaustedError is raised, its attempt is between 1
\* and max_attempts, the retry history holds one record per attempt, numbered
\* 1..attempt in order, with elapsed times that do not decrease; every record
\* but the last carries the backoff_time that was waited after it, and
\* total_attempts is the number of attempts made.
C27_ExhaustedShape ==
  retry_outcome.kind = "exhausted" =>
    LET n == retry_outcome.attempt
    IN /\ 1 <= n
       /\ n <= retry_outcome.max_attempts
       /\ n = calls
       /\ Len(retry_history) = n
       /\ \A i \in 1..n : retry_history[i].attempt = i
       /\ \A i \in 1..(n - 1) : retry_history[i].elapsed <= retry_history[i + 1].elapsed
       /\ Len(sleeps) = n - 1
       /\ \A i \in 1..(n - 1) :
            /\ retry_history[i].has_backoff_time
            /\ retry_history[i].backoff_time = sleeps[i]
       /\ TotalAttempts(retry_outcome) = calls

\* An execution allowed three attempts was exhausted at the second, by an
\* error that is not retryable, after one wait.
C27_Witness ==
  /\ retry_outcome.kind = "exhausted"
  /\ retry_outcome.max_attempts = 3
  /\ retry_outcome.attempt = 2
  /\ raised_by_func = <<APIError(500), APIError(400)>>
  /\ Len(retry_history) = 2
  /\ retry_history[1].has_backoff_time
  /\ ~retry_history[2].has_backoff_time
  /\ retry_history[2].elapsed = sleeps[1]
  /\ sleeps[1] > 0

\* C28: the retry callback is called once for every retry that is
\* scheduled, after failed attempt k and before its wait is over, with k, the
\* converted error and the delay that is waited; it is not called after a
\* success or after the terminal failure, and an exception it raises does
\* not leave execute_with_retry: the wait and the next attempt follow.
C28_CallbackProtocol ==
  /\ retry_callback = "none" => callback_calls = <<>>
  /\ retry_callback # "none" =>
       /\ Len(callback_calls) = Len(sleeps)
       /\ \A k \in 1..Len(callback_calls) :
            callback_calls[k] =
              [attempt |-> k,
               exception |-> ConvertException(handler, raised_by_func[k]),
               backoff_time |-> sleeps[k]]
       /\ pc = "sleep" => Len(callback_calls) = attempt
       /\ pc = "attempt" => Len(callback_calls) = attempt - 1
       /\ (pc = "done" /\ calls > 0) => Len(callback_calls) = calls - 1
       /\ retry_outcome.kind \in {"pending", "returned", "exhausted", "raised_other"}

\* With a callback that raises, two retries were scheduled, the callback was
\* called for each, both waits were made and the third attempt succeeded.
C28_Witness ==
  /\ pc = "done"
  /\ retry_callback = "raises"
  /\ Len(callback_calls) = 2
  /\ callback_calls[2].attempt = 2
  /\ callback_calls[2].exception = NetworkError
  /\ Len(sleeps) = 2
  /\ succeeded_at = 3

-----------------------------------------------------------------------------
(* The two handlers compared *)

\* How the execution that has ended did end.
Ended ==
  [kind |-> retry_outcome.kind, attempt |-> retry_outcome.attempt,
   waits |-> sleeps, last_error |-> retry_outcome.last_error]

\* How a handler of the given kind ends on the outcomes the operation had.
EndOf(h) == Replay(h, config, raised_by_func, succeeded_at > 0, 1, <<>>)

\* Every failure of the operation was an SDK-typed error.
AllFailuresTyped == \A i \in 1..Len(raised_by_func) : IsLingoDevError(raised_by_func[i])

-----------------------------------------------------------------------------
(* AsyncHTTPClient.post *)

\* An AsyncHTTPClient created from a configuration whose retry_config is None
\* (no handler) or a RetryConfiguration (an AsyncRetryHandler), before post.
InitClient ==
  /\ pc = "client"
  /\ SessionIdle
  /\ payload = <<>>
  /\ batch_size = 1
  /\ ideal_batch_item_size = 1
  /\ chunked_payload = <<>>
  /\ DispatchIdle
  /\ handler \in {"none", "async"}
  /\ config \in RetryConfigurations
  /\ handler = "none" => (config.max_retries = 0 /\ ~config.jitter)
  /\ attempt = 0
  /\ calls = 0
  /\ raised_by_func = <<>>
  /\ retry_history = <<>>
  /\ sleeps = <<>>
  /\ retry_outcome = NoOutcome
  /\ asked = NotAsked
  /\ computed = NotComputed
  /\ retry_after = <<>>
  /\ time_budget = 0
  /\ succeeded_at = 0
  /\ retry_callback = "none"
  /\ callback_calls = <<>>
  /\ post_outcome = NoPostOutcome

\* post is called: _make_request is handed to the retry handler's
\* execute_with_retry, whose loop starts with attempt 1, or awaited directly.
Post ==
  /\ pc = "client"
  /\ IF UsesRetryHandler(handler)
       THEN /\ attempt' = 1
            /\ pc' = "attempt"
       ELSE /\ pc' = "direct"
            /\ UNCHANGED attempt
  /\ UNCHANGED <<cvars, svars, chunked_payload, dvars, handler, config, calls,
                 raised_by_func, retry_history, sleeps, retry_outcome, asked,
                 computed, retry_after, time_budget, succeeded_at,
                 retry_callback, callback_calls, post_outcome>>

\* Without a handler: the request is sent once and post returns the JSON
\* body or raises the typed error of _make_request.
DirectRequest(resp) ==
  /\ pc = "direct"
  /\ calls' = calls + 1
  /\ IF resp = "ok_json"
       THEN /\ succeeded_at' = calls + 1
            /\ post_outcome' = [NoPostOutcome EXCEPT !.kind = "returned"]
            /\ UNCHANGED raised_by_func
       ELSE /\ raised_by_func' = Append(raised_by_func, MakeRequestRaises(resp))
            /\ post_outcome' = [kind |-> "raised", error |-> MakeRequestRaises(resp)]
            /\ UNCHANGED succeeded_at
  /\ pc' = "done"
  /\ UNCHANGED <<cvars, svars, chunked_payload, dvars, handler, config, attempt,
                 retry_history, sleeps, retry_outcome, asked, computed,
                 retry_after, time_budget, retry_callback, callback_calls>>

\* The responses on which _make_request raises.
FailingResponses == ClientResponses \ {"ok_json"}

NextClient ==
  \/ Post
  \/ \E resp \in ClientResponses : DirectRequest(resp)
  \/ AttemptSucceeds
  \/ \E resp \in FailingResponses, draw \in Draws :
       AttemptFails(MakeRequestRaises(resp), draw, 0)
  \/ SleepEnds

SpecClient == InitClient /\ [][NextClient]_vars

\* How post ended: as _make_request did, or as execute_with_retry did (which
\* raises LingoDevRetryExhaustedError around the last error).
PostOutcome ==
  IF post_outcome.kind # "pending" THEN post_outcome
  ELSE IF retry_outcome.kind = "returned"
    THEN [NoPostOutcome EXCEPT !.kind = "returned"]
  ELSE IF retry_outcome.kind = "exhausted"
    THEN [kind |-> "raised",
          error |-> Exc("LingoDevRetryExhaustedError", retry_outcome.last_error.status, "absent")]
  ELSE [kind |-> "raised", error |-> retry_outcome.last_error]

\* Without retry_config a request is sent once, and one that fails raises its
\* typed error unchanged.
SentOnceUnchanged ==
  (pc = "done" /\ handler = "none")
    => /\ calls = 1
       /\ retry_history = <<>> /\ sleeps = <<>>
       /\ Len(raised_by_func) = 1
            => /\ PostOutcome = [kind |-> "raised", error |-> raised_by_func[1]]
               /\ raised_by_func[1].cls \in {"LingoDevAPIError", "LingoDevNetworkError",
                                               "LingoDevTimeoutError"}

\* With retry_config set, post runs the handler's loop: a send that fails is
\* recorded by the handler.
GoesThroughHandler ==
  (handler # "none" /\ pc \in {"attempt", "sleep", "done"})
    => /\ Len(retry_history) = Len(raised_by_func)
       /\ post_outcome = NoPostOutcome

\* A connection failure of the first send is followed by a second send.
SecondSendFollows ==
  (calls = 1 /\ raised_by_func = <<NetworkError>>)
    => /\ pc \in {"sleep", "attempt"}
       /\ Len(sleeps) = 1

\* A connection failure followed by a success: post returns after two sends.
ReturnsAfterTwoSends ==
  (pc = "done" /\ raised_by_func = <<NetworkError>> /\ succeeded_at > 0)
    => /\ calls = 2
       /\ succeeded_at = 2
       /\ PostOutcome.kind = "returned"

-----------------------------------------------------------------------------
(* AsyncHTTPClient: the session, close and concurrent posts *)

\* The session fields of the client.
Client == [session |-> session, session_state |-> session_state, closed |-> closed]

\* self._session.closed, of a client that has a session
SessionClosed(c) == c.session # 0 /\ c.session_state[c.session] = "closed"

\* Mutant: the session created is not kept in self._session.
NewSession_NotKept(c) ==
  [c EXCEPT !.session_state = Append(c.session_state, "open"), !.closed = FALSE]

\* aiohttp.ClientSession(...): a session that no earlier one is; _closed = False
NewSession(c) ==
  [session |-> Len(c.session_state) + 1,
   session_state |-> Append(c.session_state, "open"),
   closed |-> FALSE]

\* Mutant: a session is created at every call.
EnsureSession_Always(c) == NewSession(c)

\* Mutant: a session is created only when there is none.
EnsureSession_OnlyNone(c) == IF c.session = 0 THEN NewSession(c) ELSE c

\* AsyncHTTPClient._ensure_session
EnsureSession(c) == IF c.session = 0 \/ SessionClosed(c) THEN NewSession(c) ELSE c

\* Mutant: _closed is set only when an open session was closed.
CloseClient_OnlyOpen(c) ==
  IF c.session # 0 /\ ~SessionClosed(c)
    THEN [c EXCEPT !.session_state[c.session] = "closed", !.closed = TRUE]
    ELSE c

\* AsyncHTTPClient.close
CloseClient(c) ==
  IF c.session # 0 /\ ~SessionClosed(c)
    THEN [c EXCEPT !.session_state[c.session] = "closed", !.closed = TRUE]
    ELSE [c EXCEPT !.closed = TRUE]

\* AsyncHTTPClient.is_closed
IsClosed(c) == c.closed \/ SessionClosed(c)

\* AsyncHTTPClient.health_check: the client after it, and what it returns.
HealthCheck(c) ==
  IF IsClosed(c) THEN [client |-> c, result |-> FALSE]
  ELSE LET d == EnsureSession(c) IN [client |-> d, result |-> ~IsClosed(d)]

\* Mutant: an execution goes on with the attempt number and the history of
\* the execution before it.
NewExecution_Carries(previous) ==
  [attempt |-> Max(1, previous.attempt), retry_history |-> previous.retry_history]

\* execute_with_retry: retry_history = [] and the first value of
\* range(1, max_attempts + 1), both local to the call.
NewExecution(previous) == [attempt |-> 1, retry_history |-> <<>>]

\* A task that has not called post.
IdlePost ==
  [pc |-> "idle", attempt |-> 0, retry_history |-> <<>>, used |-> <<>>,
   outcome |-> "pending", runs |-> 0]

\* The posts the tasks have started so far.
Runs == SumSeq([t \in 1..MaxPosts |-> posts[t].runs])

\* The configurations of the client's handler: the defaults of
\* RetryConfiguration but for jitter, with max_retries 0 (no retry) or 2 (one).
SessionConfigurations ==
  { [max_retries |-> m, retry_statuses |-> {429, 500, 502, 503, 504},
     backoff_factor |-> 500, max_backoff |-> 60000, jitter |-> FALSE] : m \in {0, 2} }

\* What the transport does with the requests of the concurrent posts: a JSON
\* body, a status that is not retried, a connection failure.
SessionResponses == {"ok_json", "status_404", "connection_error"}

\* A client with or without a retry handler, no session yet, and MaxPosts
\* tasks that are going to call post on it.
InitSessions ==
  /\ pc = "sessions"
  /\ payload = <<>>
  /\ batch_size = 1
  /\ ideal_batch_item_size = 1
  /\ chunked_payload = <<>>
  /\ DispatchIdle
  /\ handler \in {"none", "async"}
  /\ config \in SessionConfigurations
  /\ handler = "none" => config.max_retries = 0
  /\ attempt = 0
  /\ calls = 0
  /\ raised_by_func = <<>>
  /\ retry_history = <<>>
  /\ sleeps = <<>>
  /\ retry_outcome = NoOutcome
  /\ asked = NotAsked
  /\ computed = NotComputed
  /\ retry_after = <<>>
  /\ time_budget = 0
  /\ succeeded_at = 0
  /\ retry_callback = "none"
  /\ callback_calls = <<>>
  /\ post_outcome = NoPostOutcome
  /\ session = 0
  /\ session_state = <<>>
  /\ closed = FALSE
  /\ posts = [t \in 1..MaxPosts |-> IdlePost]
  /\ close_calls = 0
  /\ last_call = [op |-> "none", result |-> FALSE, before |-> Client]

\* The client's session fields become those of c.
SetClient(c) ==
  /\ session' = c.session
  /\ session_state' = c.session_state
  /\ closed' = c.closed

\* Task t calls post (the tasks make their first calls in the order in which
\* they were created): the call runs, through execute_with_retry if there is
\* a handler, into _make_request, which ensures the session and sends the
\* request on it; the task is suspended until the response.
PostCall(t) ==
  /\ pc = "sessions"
  /\ posts[t].pc \in {"idle", "done"}
  /\ \A u \in 1..(t - 1) : posts[u].runs > 0
  /\ Runs < MaxRuns
  /\ LET c == EnsureSession(Client)
         e == NewExecution(posts[t])
     IN /\ SetClient(c)
        /\ posts' = [posts EXCEPT ![t] =
                       [pc |-> "request", attempt |-> e.attempt,
                        retry_history |-> e.retry_history,
                        used |-> <<c.session>>, outcome |-> "pending",
                        runs |-> posts[t].runs + 1]]
  /\ last_call' = [op |-> "post", result |-> TRUE, before |-> Client]
  /\ UNCHANGED <<pc, cvars, chunked_payload, dvars, rvars, close_calls>>

\* The request of task t ends. A JSON body is returned; an error is raised
\* as it is without a handler, and with one it is recorded and either ends
\* the execution or is followed by a wait.
RequestEnds(t, resp) ==
  /\ pc = "sessions"
  /\ posts[t].pc = "request"
  /\ LET p == posts[t]
         e == ConvertException("async", MakeRequestRaises(resp))
         retry_record == [attempt |-> p.attempt, exception_type |-> e.cls]
     IN posts' = [posts EXCEPT ![t] =
          IF resp = "ok_json"
            THEN [p EXCEPT !.pc = "done", !.outcome = "returned"]
          ELSE IF ~UsesRetryHandler(handler)
            THEN [p EXCEPT !.pc = "done", !.outcome = "raised"]
          ELSE IF ~ShouldRetry("async", config, e, p.attempt) \/ p.attempt >= MaxAttempts
            THEN [p EXCEPT !.pc = "done", !.outcome = "exhausted",
                           !.retry_history = Append(p.retry_history, retry_record)]
          ELSE [p EXCEPT !.pc = "sleep",
                         !.retry_history = Append(p.retry_history, retry_record)]]
  /\ UNCHANGED <<pc, cvars, chunked_payload, dvars, rvars, session, session_state,
                 closed, close_calls, last_call>>

\* The wait of task t ends: the loop goes on with the next attempt, whose
\* _make_request ensures the session and sends the request again.
WaitEnds(t) ==
  /\ pc = "sessions"
  /\ posts[t].pc = "sleep"
  /\ LET c == EnsureSession(Client)
     IN /\ SetClient(c)
        /\ posts' = [posts EXCEPT ![t].pc = "request",
                                  ![t].attempt = posts[t].attempt + 1,
                                  ![t].used = Append(posts[t].used, c.session)]
  /\ last_call' = [op |-> "retry", result |-> TRUE, before |-> Client]
  /\ UNCHANGED <<pc, cvars, chunked_payload, dvars, rvars, close_calls>>

\* A direct call of _ensure_session.
EnsureSessionCall ==
  /\ pc = "sessions"
  /\ SetClient(EnsureSession(Client))
  /\ last_call' = [op |-> "ensure", result |-> TRUE, before |-> Client]
  /\ UNCHANGED <<pc, cvars, chunked_payload, dvars, rvars, posts, close_calls>>

\* A call of close (the session's own close is taken to end without another
\* task of the client running meanwhile).
CloseCall ==
  /\ pc = "sessions"
  /\ close_calls < MaxCloses
  /\ SetClient(CloseClient(Client))
  /\ close_calls' = close_calls + 1
  /\ last_call' = [op |-> "close", result |-> TRUE, before |-> Client]
  /\ UNCHANGED <<pc, cvars, chunked_payload, dvars, rvars, posts>>

\* A call of health_check.
HealthCheckCall ==
  /\ pc = "sessions"
  /\ LET h == HealthCheck(Client)
     IN /\ SetClient(h.client)
        /\ last_call' = [op |-> "health_check", result |-> h.result,
                         before |-> Client]
  /\ UNCHANGED <<pc, cvars, chunked_payload, dvars, rvars, posts, close_calls>>

NextSessions ==
  \/ \E t \in 1..MaxPosts : PostCall(t)
  \/ \E t \in 1..MaxPosts, resp \in SessionResponses : RequestEnds(t, resp)
  \/ \E t \in 1..MaxPosts : WaitEnds(t)
  \/ EnsureSessionCall
  \/ CloseCall
  \/ HealthCheckCall

SpecSessions == InitSessions /\ [][NextSessions]_vars

\* The sessions the posts of the tasks were sent on.
UsedSessions == UNION { { posts[t].used[i] : i \in 1..Len(posts[t].used) } : t \in 1..MaxPosts }

\* The client had an open session before the last call on it.
HadOpenSession == last_call.before.session # 0 /\ ~SessionClosed(last_call.before)

\* C31: _ensure_session (called directly, by a post or by a retry attempt)
\* on a client whose session is open leaves the session unchanged, and as
\* long as close was not called the client uses the session created first.
C31_SessionReuse ==
  /\ (last_call.op \in {"ensure", "post", "retry"} /\ HadOpenSession)
       => Client = last_call.before
  /\ close_calls = 0
       => /\ session \in {0, 1}
          /\ Len(session_state) <= 1
          /\ UsedSessions \subseteq {1}

\* Without a close, a task ran two posts and _ensure_session was then called
\* on the open session, which is still the first.
C31_Witness ==
  /\ close_calls = 0
  /\ last_call.op = "ensure"
  /\ HadOpenSession
  /\ \E t \in 1..MaxPosts : posts[t].runs >= 2 /\ posts[t].pc = "done"
  /\ session = 1

\* The client was closed before the last call on it.
WasClosed == IsClosed(last_call.before)

C33_CloseIdempotent ==
  /\ last_call.op = "close"
       => /\ IsClosed(Client)
          /\ closed
          /\ session = last_call.before.session
          /\ WasClosed => Client = last_call.before
  /\ (last_call.op = "health_check" /\ WasClosed)
       => /\ last_call.result = FALSE
          /\ Client = last_call.before
  /\ (last_call.op = "health_check" /\ ~WasClosed)
       => /\ last_call.result = TRUE
          /\ session # 0 /\ ~IsClosed(Client)

\* A client that never opened a session was closed twice and health_check
\* then returned false without opening one.
C33_Witness ==
  /\ last_call.op = "health_check"
  /\ close_calls = 2
  /\ session = 0
  /\ session_state = <<>>
  /\ last_call.result = FALSE
  /\ IsClosed(Client)

\* C40: the posts started on a client without an open session create one
\* session, which they share; a session is created only when none is open.
C40_SingleSession ==
  /\ \A i \in 1..Len(session_state) :
       session_state[i] = "open" => i = session /\ i = Len(session_state)
  /\ Len(session_state) <= close_calls + 1
  /\ (last_call.op = "post" /\ HadOpenSession)
       => Len(session_state) = Len(last_call.before.session_state)
  /\ \A t, u \in 1..MaxPosts :
       (close_calls = 0 /\ posts[t].pc = "request" /\ posts[u].pc = "request")
         => posts[t].used[Len(posts[t].used)] = posts[u].used[Len(posts[u].used)]

\* Two posts are in flight at once on a client that was never closed, on the
\* one session there is.
C40_Witness ==
  /\ close_calls = 0
  /\ \A t \in 1..MaxPosts : posts[t].pc = "request" /\ posts[t].used = <<1>>
  /\ Len(session_state) = 1
  /\ session = 1

\* The invocations of _make_request in the execution task t is running or
\* ran last, and those of them that raised.
Invocations(t) == Len(posts[t].used)
FailedInvocations(t) ==
  IF posts[t].pc = "request" \/ posts[t].outcome = "returned"
    THEN Invocations(t) - 1
    ELSE Invocations(t)

C34_OnlyExhaustedEscapes ==
  (pc = "done" /\ calls > 0) => retry_outcome.kind \in {"returned", "exhausted"}

-----------------------------------------------------------------------------
(* execute_with_retry when the operation and the waits return *)

\* The operation that was invoked returns or raises.
AttemptEnds ==
  \/ AttemptSucceeds
  \/ \E raw \in CallbackFailures, draw \in Draws : AttemptFails(raw, draw, 0)

\* The executions of SpecCallback in which an operation that was invoked
\* ends and a wait that began ends.
SpecTerminates == SpecCallback /\ WF_vars(AttemptEnds) /\ WF_vars(SleepEnds)

\* C35: an execution never invokes the operation more than max(1,
\* max_retries) times and never waits after its last attempt, so that the
\* loop is never left at its end; and every execution that began ends.
C35_TerminatesWithinBudget ==
  /\ [](/\ calls <= MaxAttempts
        /\ pc \in {"attempt", "sleep"} => attempt \in 1..MaxAttempts
        /\ pc = "sleep" => attempt < MaxAttempts
        /\ retry_outcome.kind # "unexpected_end")
  /\ (pc = "attempt") ~> (pc = "done")

\* An execution with max_retries 3 ended after three invocations that failed.
C35_Witness ==
  /\ pc = "done"
  /\ config.max_retries = 3
  /\ calls = 3
  /\ Len(sleeps) = 2
  /\ retry_outcome.kind = "exhausted"

-----------------------------------------------------------------------------
(* The two modes of _localize_raw *)

\* C37: in sequential mode a chunk is sent only after every chunk before it
\* succeeded, one at a time; after a send that failed no later chunk is sent
\* and the progress callback is called neither for it nor for a later chunk.
C37_SequentialStopsAtFailure ==
  (~ConcurrentMode /\ pc = "dispatch")
    => /\ Cardinality(InFlight) <= 1
       /\ \A i \in 1..NumChunks :
            /\ send[i] # "created" => \A j \in 1..(i - 1) : send[j] = "returned"
            /\ send[i] = "raised"
                 => /\ \A j \in (i + 1)..NumChunks : send[j] = "created"
                    /\ Len(progress_calls) < i
                    /\ Len(processed_payload_chunks) = i - 1
                    /\ outcome = "raised" /\ error.chunk = i
       /\ \A k \in 1..Len(progress_calls) :
            /\ send[k] = "returned"
            /\ progress_calls[k].source = chunked_payload[k]

\* With a callback, the second of three chunks failed after the first was
\* reported; the third was never sent.
C37_Witness ==
  /\ ~ConcurrentMode
  /\ progress_callback
  /\ send = <<"returned", "raised", "created">>
  /\ Len(progress_calls) = 1
  /\ outcome = "raised"

\* C38: with a progress callback the dispatch is sequential whatever
\* concurrent is (at most one send in flight); sends are in flight together
\* only when concurrent is true and there is no callback; localize_text and
\* localize_chat always pass a callback and never dispatch concurrently.
C38_ModesExclusive ==
  /\ progress_callback => Cardinality(InFlight) <= 1
  /\ progress_callback
       => \A i \in 1..Len(send) :
            send[i] # "created" => \A j \in 1..(i - 1) : send[j] = "returned"
  /\ Cardinality(InFlight) >= 2 => (concurrent /\ ~progress_callback)
  /\ (\E i, j \in 1..Len(send) : i < j /\ send[i] \in {"created", "inflight"}
                                      /\ send[j] # "created")
       => (concurrent /\ ~progress_callback)
  /\ entry \in {"localize_text", "localize_chat"}
       => /\ progress_callback
          /\ ~concurrent
          /\ Cardinality(InFlight) <= 1

\* localize_object was called with concurrent=True and a callback: the
\* second chunk is sent after the first was reported.
C38_Witness ==
  /\ entry = "localize_object"
  /\ concurrent
  /\ progress_callback
  /\ NumChunks >= 2
  /\ send[1] = "returned" /\ send[2] = "inflight"
  /\ Len(progress_calls) = 1

-----------------------------------------------------------------------------
(* A concurrent dispatch on an event loop that runs every task *)

\* A call of _localize_raw with concurrent=True and no callback on a payload
\* of up to MaxSendChunks entries that caps of 1 split into one chunk each.
InitGather ==
  /\ pc = "call"
  /\ SessionIdle
  /\ payload \in { UniformPayload(n) : n \in 1..MaxSendChunks }
  /\ batch_size = 1
  /\ ideal_batch_item_size = 1
  /\ chunked_payload = <<>>
  /\ entry = "localize_object"
  /\ concurrent = TRUE
  /\ progress_callback = FALSE
  /\ max_concurrent_requests = 1
  /\ retry_max_attempts = 0
  /\ workflow_id = ""
  /\ sent_workflow_id = <<>>
  /\ response = <<>>
  /\ send = <<>>
  /\ returned = <<>>
  /\ failure = <<>>
  /\ completion_order = <<>>
  /\ processed_payload_chunks = <<>>
  /\ progress_calls = <<>>
  /\ outcome = "pending"
  /\ result = <<>>
  /\ error = NoError
  /\ RetryIdle

\* The event loop runs a task that is ready, and a request that was sent
\* comes back.
SomeTaskStarts == \E i \in 1..NumChunks : TaskStart(i)
SomeTaskCompletes ==
  \E i \in 1..NumChunks, resp \in DispatchResponses : TaskComplete(i, resp)

NextGather ==
  \/ \E id \in WorkflowIds : LocalizeRawCall(id)
  \/ SomeTaskStarts
  \/ SomeTaskCompletes
  \/ GatherDone

\* The concurrent dispatches on an event loop that keeps running.
SpecGather ==
  /\ InitGather
  /\ [][NextGather]_vars
  /\ WF_vars(SomeTaskStarts)
  /\ WF_vars(SomeTaskCompletes)

\* The send of every chunk has ended.
AllSendsEnded == \A i \in 1..NumChunks : send[i] \in {"returned", "raised"}

\* C39: in a concurrent dispatch the send of a chunk is started once and,
\* once started, ends by itself only (nothing takes it back or ends it when
\* another fails); the sends of all chunks end, also after the dispatch
\* failed with the first failure.
C39_NoCancellation ==
  /\ [][ConcurrentMode =>
          \A i \in 1..Len(send) :
            /\ send[i] # "created" => send'[i] # "created"
            /\ send[i] \in {"returned", "raised"} => send'[i] = send[i]
            /\ (send[i] = "inflight" /\ send'[i] # "inflight")
                 => /\ \A j \in 1..Len(send) : j # i => send'[j] = send[j]
                    /\ Len(completion_order') = Len(completion_order) + 1]_vars
  /\ [](ConcurrentMode =>
          /\ \A i \in 1..Len(send) :
               (send[i] \in {"returned", "raised"}) =
                 (Cardinality({k \in 1..Len(completion_order) : completion_order[k] = i}) = 1)
          /\ outcome = "raised" => send[error.chunk] = "raised")
  /\ (ConcurrentMode /\ pc = "dispatch") ~> AllSendsEnded
  /\ (ConcurrentMode /\ outcome = "raised") ~> AllSendsEnded

\* The first of three concurrent sends failed, and with it the dispatch; the
\* other two were started after that and returned their data.
C39_Witness ==
  /\ ConcurrentMode
  /\ outcome = "raised"
  /\ error.chunk = 1
  /\ completion_order = <<1, 2, 3>>
  /\ send = <<"raised", "returned", "returned">>
  /\ AllSendsEnded

=============================================================================
